---- MODULE Spec2Model ----
(***************************************************************************)
(* Research-task lifecycle of the History application: the chat route's    *)
(* stream loop (submit, poll the provider every second, relay events),     *)
(* the poll endpoint, the usage ledger write-backs and the rate/quota      *)
(* gate.                                                                   *)
(***************************************************************************)
EXTENDS Integers, Sequences, FiniteSets, TLC

(***************************************************************************)
(* Program constants                                                       *)
(***************************************************************************)
\* const maxPolls = 840 in the stream loop
maxPolls == 840
\* export const maxDuration = 800 (seconds the host lets a request run)
maxDuration == 800
\* setTimeout(resolve, 1000): seconds waited before each poll
pollIntervalSec == 1
\* 5 * 60 * 1000: minutes before expiry from which the access token is refreshed
refreshWindowMin == 5
\* lifetime limit of anonymous users
ANONYMOUS_LIMIT == 1
\* per-day limit of signed-up free users
FREE_LIMIT == 3
\* monthly limit of subscription users
SUBSCRIPTION_MONTHLY_LIMIT == 100
\* pay-per-use users
UNLIMITED_LIMIT == 999999

(***************************************************************************)
(* Bounds of the exploration                                               *)
(***************************************************************************)
\* longest provider transcript explored
MaxMsgs == 2
\* polls explored from a fresh stream
MaxExploredPolls == 2
\* distance to the poll budget from which the late streams are explored
NearBudget == 2
\* calls of the poll endpoint
NCalls == 2
\* chat requests of one identity
NReqs == 2
\* increments followed from one stored counter state
MaxIncrements == 2
NLogins == 2
MaxSignups == 1
\* runs of the polling effect
NEffects == 2
\* firings of one interval
MaxTicks == 2
\* hours followed after the check at the limit
MaxHours == 30
\* minutes of the clock at which getValidAccessToken is called
MaxMinutes == 12

VARIABLES
  mode,        \* "production" | "development" (isDevelopmentMode / isSelfHostedMode)
  hasSession,  \* user && sessionId of the request
  hosted,      \* the route runs on the hosting platform, which enforces maxDuration
  provider,    \* the research provider's task: status, transcript, result parts
  ledger,      \* the research_tasks row of the task
  stream,      \* the stream loop's locals and position
  events,      \* the frames enqueued on the stream, in order
  ref,         \* the same loop fed the same inputs, every ledger write succeeding
  refEvents,   \* the frames of that reference loop
  elapsed,     \* seconds the request has waited in the loop (its wall-clock time is no less)
  calls,       \* the poll endpoint's calls: position, fetched status, response
  client,      \* the research interface component of the caller
  gate,        \* the account, its user_rate_limits row and the date
  reqs,        \* the chat route's requests at the gate
  conn,        \* the caller's connection to the stream
  anon,        \* the anonymous identity: where the module runs, its cookie
  probe,       \* the last call of the rate-limit module's check or increment
  chat,        \* a request to the chat route, up to its response
  tok,         \* a request to the token endpoint, up to its response
  bridge,      \* the account store and the session-bridge calls in flight
  query,       \* a research query under construction: the message, the location, the result
  poller,      \* the component's polling effect: its runs, their closures, the intervals
  clock,       \* the server's time and zone, and the checks of an account at its daily limit
  signin,      \* the sign-in completion page: the callback, the stored PKCE data, the outcome
  auth         \* the browser's stored tokens and a call of getValidAccessToken

vars == <<mode, hasSession, hosted, provider, ledger, stream, events, ref, refEvents, elapsed,
          calls, client, gate, reqs, conn, anon, probe, chat,
          tok, bridge, query, poller, clock, signin, auth>>

\* the variables of the routes, the gate and the session bridge
baseVars == <<mode, hasSession, hosted, provider, ledger, stream, events, ref, refEvents,
              elapsed, calls, client, gate, reqs, conn, anon, probe, chat, tok, bridge>>

\* the variables of the library functions and of the sign-in client
libVars == <<query, poller, clock, signin, auth>>

cfgVars == <<mode, hasSession, hosted>>
streamVars == <<stream, events, ref, refEvents, elapsed>>
gateVars == <<gate, reqs>>
auxVars == <<conn, anon, probe, chat, tok, bridge, libVars>>

\* A transcript message: its role and the number of items of its content
\* (0: no content).
MsgKinds ==
  { [role |-> "assistant", items |-> 1],
    [role |-> "tool",      items |-> 2],
    [role |-> "user",      items |-> 1],
    [role |-> "assistant", items |-> 0] }

(***************************************************************************)
(* Stream frames                                                           *)
(***************************************************************************)
Ev(type) == [type |-> type, msg |-> 0, item |-> 0, role |-> "", info |-> ""]

MessageUpdate(i, j, role) ==
  [type |-> "message_update", msg |-> i, item |-> j, role |-> role, info |-> ""]

ErrorEv(why) == [type |-> "error", msg |-> 0, item |-> 0, role |-> "", info |-> why]

ContinuePolling(taskId) ==
  [type |-> "continue_polling", msg |-> 0, item |-> 0, role |-> "", info |-> taskId]

TaskId == "task"

\* one message's frames: one message_update per content item, for the
\* assistant and tool roles only
MessageFrames(messages, i) ==
  IF messages[i].role \in {"assistant", "tool"} /\ messages[i].items > 0
  THEN [j \in 1..messages[i].items |-> MessageUpdate(i, j, messages[i].role)]
  ELSE << >>

RECURSIVE FramesFrom(_, _)
\* the frames of messages.slice(from - 1), in order
FramesFrom(messages, from) ==
  IF from > Len(messages) THEN << >>
  ELSE MessageFrames(messages, from) \o FramesFrom(messages, from + 1)

\* streamMessages without the slice: every poll sends the whole transcript again
StreamMessagesResend(messages, lastLength) ==
  [frames |-> FramesFrom(messages, 1), length |-> Len(messages)]

\* streamMessages: enqueue the new messages' frames, return messages.length
StreamMessages(messages, lastLength) ==
  [frames |-> FramesFrom(messages, lastLength + 1), length |-> Len(messages)]


(***************************************************************************)
(* The stream loop (ReadableStream start)                                  *)
(***************************************************************************)
NoData == [status |-> "queued", messages |-> << >>, sources |-> FALSE, images |-> FALSE]

\* the locals of start(controller) before the first iteration; the stream
\* already carries task_created and the initial status frame
StreamStart(polls) ==
  [pc |-> "loop", pollCount |-> polls, lastMessagesLength |-> 0,
   hasSetRunning |-> FALSE, completed |-> FALSE, responseOk |-> TRUE,
   statusData |-> NoData]

InitialFrames == << [Ev("task_created") EXCEPT !.info = TaskId], Ev("status") >>

\* try { await db.updateResearchTaskByDeepResearchId(...) } catch { /* fail silently */ }
LedgerWriteOutcomeThrows(dbOk) == IF dbOk THEN "written" ELSE "thrown"

LedgerWriteOutcome(dbOk) == IF dbOk THEN "written" ELSE "swallowed"

\* a catch that closes the stream without telling the caller
ThrownSilently(st, frames, why, write, lost) ==
  [st |-> [st EXCEPT !.pc = "closed"], frames |-> frames, write |-> write, lost |-> lost]

\* the catch of start(): one error frame, then finally controller.close()
Thrown(st, frames, why, write, lost) ==
  [st |-> [st EXCEPT !.pc = "closed"], frames |-> frames \o << ErrorEv(why) >>,
   write |-> write, lost |-> lost]

\* one iteration: wait, pollCount++, fetch the status
PollStep(st, fetchOk, snapshot) ==
  IF fetchOk
  THEN [st |-> [st EXCEPT !.pc = "handle", !.pollCount = @ + 1, !.responseOk = TRUE,
                          !.statusData = snapshot],
        frames |-> << >>, write |-> "none", lost |-> FALSE]
  ELSE Thrown([st EXCEPT !.pollCount = @ + 1, !.responseOk = FALSE], << >>,
              "Failed to get task status", "none", FALSE)

\* statusData.status === 'running'
HandleRunning(st, sd, dev, dbOk) ==
  LET writes == ~dev /\ ~st.hasSetRunning
      outcome == IF writes THEN LedgerWriteOutcome(dbOk) ELSE "none"
      sm == StreamMessages(sd.messages, st.lastMessagesLength)
      st1 == [st EXCEPT !.hasSetRunning = (@ \/ writes)]
  IN IF outcome = "thrown"
     THEN Thrown(st1, << >>, "ledger write failed", "none", TRUE)
     ELSE [st |-> [st1 EXCEPT !.pc = "loop", !.lastMessagesLength = sm.length],
           frames |-> << Ev("progress") >> \o sm.frames,
           write |-> IF outcome = "written" THEN "running" ELSE "none",
           lost |-> (outcome = "swallowed")]

\* the completed branch with the done frame sent before the result
HandleCompletedDoneFirst(st, sd, dev, session, dbOk, persistOk) ==
  LET sm == StreamMessages(sd.messages, st.lastMessagesLength)
  IN [st |-> [st EXCEPT !.pc = "closed", !.completed = TRUE,
                        !.lastMessagesLength = sm.length],
      frames |-> << Ev("done") >> \o sm.frames \o << Ev("content") >>,
      write |-> IF dev \/ ~dbOk THEN "none" ELSE "completed",
      lost |-> (~dev /\ ~dbOk)]

\* statusData.status === 'completed'
HandleCompleted(st, sd, dev, session, dbOk, persistOk) ==
  LET sm == StreamMessages(sd.messages, st.lastMessagesLength)
      st1 == [st EXCEPT !.completed = TRUE, !.lastMessagesLength = sm.length]
      out == sm.frames \o << Ev("content") >>
               \o (IF sd.sources THEN << Ev("sources") >> ELSE << >>)
               \o (IF sd.images THEN << Ev("images") >> ELSE << >>)
      outcome == IF ~dev THEN LedgerWriteOutcome(dbOk) ELSE "none"
  IN IF session /\ ~persistOk
     THEN Thrown(st1, out, "saving the assistant message failed", "none", FALSE)
     ELSE IF outcome = "thrown"
     THEN Thrown(st1, out, "ledger write failed", "none", TRUE)
     ELSE [st |-> [st1 EXCEPT !.pc = "closed"],
           frames |-> out \o << Ev("done") >>,
           write |-> IF outcome = "written" THEN "completed" ELSE "none",
           lost |-> (outcome = "swallowed")]

\* statusData.status === 'failed'
HandleFailed(st, sd, dev, dbOk) ==
  LET outcome == IF ~dev THEN LedgerWriteOutcome(dbOk) ELSE "none"
  IN IF outcome = "thrown"
     THEN Thrown(st, << >>, "ledger write failed", "none", TRUE)
     ELSE Thrown(st, << >>, "Research task failed",
                 IF outcome = "written" THEN "failed" ELSE "none",
                 outcome = "swallowed")

\* the body of the loop after the status was fetched
HandleStep(st, dev, session, dbOk, persistOk) ==
  LET sd == st.statusData
  IN CASE sd.status = "running"   -> HandleRunning(st, sd, dev, dbOk)
       [] sd.status = "completed" -> HandleCompleted(st, sd, dev, session, dbOk, persistOk)
       [] sd.status = "failed"    -> HandleFailed(st, sd, dev, dbOk)
       [] OTHER -> [st |-> [st EXCEPT !.pc = "loop"], frames |-> << >>, write |-> "none",
                    lost |-> FALSE]

\* while (!completed && pollCount < maxPolls)
LoopContinues(st) == ~st.completed /\ st.pollCount < maxPolls

\* a loop that treats the used-up budget as a failure of the task
ExitStepFails(st) ==
  [st |-> [st EXCEPT !.pc = "closed"],
   frames |-> IF ~st.completed THEN << ErrorEv("timed out") >> ELSE << >>,
   write |-> IF ~st.completed THEN "failed" ELSE "none", lost |-> FALSE]

\* after the loop: if (!completed) continue_polling; finally close
ExitStep(st) ==
  [st |-> [st EXCEPT !.pc = "closed"],
   frames |-> IF ~st.completed THEN << ContinuePolling(TaskId) >> ELSE << >>,
   write |-> "none", lost |-> FALSE]

\* research_tasks.update({status, updated_at}).eq('deepresearch_id', id);
\* lost: the update was issued and failed
LedgerUpdate(row, status, lost) ==
  IF status = "none" THEN [row EXCEPT !.lost = (@ \/ lost)]
  ELSE [row EXCEPT !.status = status, !.writes = @ + 1]


(***************************************************************************)
(* The research provider: its status only moves forward                    *)
(***************************************************************************)
ProviderInit == [status |-> "queued", messages |-> << >>, sources |-> FALSE, images |-> FALSE]

ProviderRun ==
  /\ provider.status = "queued"
  /\ provider' = [provider EXCEPT !.status = "running"]
  /\ UNCHANGED <<cfgVars, auxVars, ledger, streamVars, calls, client, gateVars>>

ProviderAppend ==
  /\ provider.status = "running"
  /\ Len(provider.messages) < MaxMsgs
  /\ \E m \in MsgKinds : provider' = [provider EXCEPT !.messages = Append(@, m)]
  /\ UNCHANGED <<cfgVars, auxVars, ledger, streamVars, calls, client, gateVars>>

ProviderComplete ==
  /\ provider.status = "running"
  /\ \E src \in BOOLEAN, img \in BOOLEAN :
       provider' = [provider EXCEPT !.status = "completed", !.sources = src, !.images = img]
  /\ UNCHANGED <<cfgVars, auxVars, ledger, streamVars, calls, client, gateVars>>

ProviderFail ==
  /\ provider.status \in {"queued", "running"}
  /\ provider' = [provider EXCEPT !.status = "failed"]
  /\ UNCHANGED <<cfgVars, auxVars, ledger, streamVars, calls, client, gateVars>>

(***************************************************************************)
(* Actions of the stream loop                                              *)
(***************************************************************************)
\* the polls the exploration follows: the first ones of a stream and the
\* last ones before the budget
Explored(st) ==
  st.pollCount < MaxExploredPolls \/ st.pollCount >= maxPolls - NearBudget

\* what becomes of a step of the loop once the runtime has cancelled the
\* stream: controller.enqueue throws, in the catch and in the finally too, so
\* start() ends at the first frame; what ran before that frame stays done
\* (the write-back of the running and failed branches, not the completed one's)
Delivered(before, step) ==
  IF conn # "cancelled" \/ step.frames = << >> THEN step
  ELSE LET wrote == before.statusData.status # "completed" \/ before.pc # "handle"
       IN [st |-> [step.st EXCEPT !.pc = "aborted",
                                  !.lastMessagesLength = before.lastMessagesLength],
           frames |-> << >>,
           write |-> IF wrote THEN step.write ELSE "none",
           lost |-> wrote /\ step.lost]

\* the reference loop takes the step the stream takes while it is where the stream is
RefStep(r, next) ==
  IF r.pc = stream.pc THEN next
  ELSE [st |-> r, frames |-> << >>, write |-> "none", lost |-> FALSE]

\* the wait of an iteration ends within the time the host lets the request run
WithinHostLimit == ~hosted \/ elapsed + pollIntervalSec <= maxDuration

StreamPollStep ==
  /\ stream.pc = "loop"
  /\ LoopContinues(stream)
  /\ WithinHostLimit
  /\ \E fetchOk \in BOOLEAN :
       LET s == Delivered(stream, PollStep(stream, fetchOk, provider))
           r == RefStep(ref, PollStep(ref, fetchOk, provider))
       IN /\ stream' = s.st
          /\ events' = events \o s.frames
          /\ ref' = r.st
          /\ refEvents' = refEvents \o r.frames
  /\ elapsed' = elapsed + pollIntervalSec
  /\ UNCHANGED <<cfgVars, auxVars, provider, ledger, calls, client, gateVars>>

StreamPoll == Explored(stream) /\ StreamPollStep

\* the polls followed next to the host's limit
HostPoll ==
  /\ \/ Explored(stream)
     \/ stream.pollCount * pollIntervalSec >= maxDuration - NearBudget * pollIntervalSec
  /\ StreamPollStep

StreamHandle ==
  /\ stream.pc = "handle"
  /\ \E dbOk \in BOOLEAN, persistOk \in BOOLEAN :
       LET dev == (mode = "development")
           s == Delivered(stream, HandleStep(stream, dev, hasSession, dbOk, persistOk))
           r == RefStep(ref, HandleStep(ref, dev, hasSession, TRUE, persistOk))
       IN /\ stream' = s.st
          /\ events' = events \o s.frames
          /\ ledger' = LedgerUpdate(ledger, s.write, s.lost)
          /\ ref' = r.st
          /\ refEvents' = refEvents \o r.frames
  /\ UNCHANGED <<cfgVars, auxVars, provider, elapsed, calls, client, gateVars>>

StreamExit ==
  /\ stream.pc = "loop"
  /\ ~LoopContinues(stream)
  /\ LET s == Delivered(stream, ExitStep(stream))
         r == RefStep(ref, ExitStep(ref))
     IN /\ stream' = s.st
        /\ events' = events \o s.frames
        /\ ref' = r.st
        /\ refEvents' = refEvents \o r.frames
  /\ UNCHANGED <<cfgVars, auxVars, provider, ledger, elapsed, calls, client, gateVars>>

\* the host ends a request that has run for maxDuration seconds: nothing more
\* is enqueued
HostTimeout ==
  /\ hosted
  /\ stream.pc \in {"loop", "handle"}
  /\ elapsed >= maxDuration
  /\ stream' = [stream EXCEPT !.pc = "killed"]
  /\ UNCHANGED <<cfgVars, auxVars, provider, ledger, events, ref, refEvents, elapsed, calls, client,
                 gateVars>>

\* the caller goes away; the runtime cancels the response stream, or does
\* not notice
CallerDisconnect ==
  /\ conn = "connected"
  /\ stream.pc \in {"loop", "handle"}
  /\ conn' \in {"cancelled", "unnoticed"}
  /\ UNCHANGED <<cfgVars, provider, ledger, streamVars, calls, client, gateVars, anon, probe, chat, tok, bridge, libVars>>

(***************************************************************************)
(* The poll endpoint (GET /api/chat/poll?taskId=...)                       *)
(***************************************************************************)
Calls == 1..NCalls

IdleCall ==
  [pc |-> "idle", from |-> "none", token |-> FALSE, http |-> 0,
   statusData |-> NoData, issued |-> "none"]

\* OAuth proxy with a bearer token, the API key in development, else 401
PollAuth(dev, token) ==
  IF token THEN "proxy" ELSE IF dev THEN "apikey" ELSE "denied"

\* the update the endpoint issues for the status it fetched
EndpointWrite(sd, dev) ==
  IF dev THEN "none"
  ELSE IF sd.status \in {"running", "completed", "failed"} THEN sd.status
  ELSE "none"

\* some caller other than the component requests the task's status
CallerSend(c) ==
  /\ calls[c].pc = "idle"
  /\ \E token \in BOOLEAN :
       calls' = [calls EXCEPT ![c] = [@ EXCEPT !.pc = "sent", !.from = "other",
                                               !.token = token]]
  /\ UNCHANGED <<cfgVars, auxVars, provider, ledger, streamVars, client, gateVars>>

\* GET up to statusResponse.json(): authenticate, fetch the provider's status
EndpointFetch(c) ==
  /\ calls[c].pc = "sent"
  /\ IF PollAuth(mode = "development", calls[c].token) = "denied"
     THEN calls' = [calls EXCEPT ![c] = [@ EXCEPT !.pc = "responded", !.http = 401]]
     ELSE \E fetchOk \in BOOLEAN :
            calls' = [calls EXCEPT ![c] =
                        IF fetchOk
                        THEN [@ EXCEPT !.pc = "fetched", !.statusData = provider]
                        ELSE [@ EXCEPT !.pc = "responded", !.http = 500]]
  /\ UNCHANGED <<cfgVars, auxVars, provider, ledger, streamVars, client, gateVars>>

\* GET from the ledger update to the 200 response carrying statusData
EndpointRespond(c) ==
  /\ calls[c].pc = "fetched"
  /\ LET w == EndpointWrite(calls[c].statusData, mode = "development")
     IN /\ \E dbOk \in BOOLEAN :
             ledger' = IF dbOk THEN LedgerUpdate(ledger, w, FALSE)
                       ELSE LedgerUpdate(ledger, "none", w # "none")
        /\ calls' = [calls EXCEPT ![c] = [@ EXCEPT !.pc = "responded", !.http = 200,
                                                  !.issued = w]]
  /\ UNCHANGED <<cfgVars, auxVars, provider, streamVars, client, gateVars>>

(***************************************************************************)
(* The research interface component: stream reader and client-side polling *)
(***************************************************************************)
ClientIdle ==
  [status |-> "idle", shouldContinuePolling |-> FALSE, taskId |-> FALSE,
   reading |-> FALSE, cursor |-> 0, effect |-> "none", interval |-> FALSE,
   first |-> 0]

\* the switch over data.type in runResearch
OnFrame(cl, e) ==
  CASE e.type = "task_created"     -> [cl EXCEPT !.taskId = TRUE]
    [] e.type = "status"           -> [cl EXCEPT !.status = "queued"]
    [] e.type = "continue_polling" -> [cl EXCEPT !.shouldContinuePolling = TRUE,
                                                 !.taskId = TRUE]
    [] e.type = "progress"         -> [cl EXCEPT !.status = "running"]
    [] e.type = "error"            -> [cl EXCEPT !.status = "error"]
    [] e.type = "done"             -> [cl EXCEPT !.status = "completed"]
    [] OTHER -> cl

\* what pollTaskStatus makes of a response
PollResult(call) ==
  IF call.http # 200 THEN "error"
  ELSE CASE call.statusData.status = "running"   -> "running"
         [] call.statusData.status = "completed" -> "completed"
         [] call.statusData.status = "failed"    -> "error"
         [] OTHER -> "none"

\* poll(): pollTaskStatus sets the state from the response; completed or an
\* error ends polling (the effect's cleanup clears the interval); the first
\* poll's return starts the interval
OnPollResponse(cl, call, isFirst) ==
  LET res == PollResult(call)
      ends == res \in {"completed", "error"}
  IN [cl EXCEPT
        !.status = IF res = "none" THEN @ ELSE res,
        !.shouldContinuePolling = IF ends THEN FALSE ELSE @,
        !.interval = IF ends THEN FALSE ELSE IF isFirst THEN TRUE ELSE @,
        !.effect = IF ends THEN "done" ELSE IF isFirst THEN "ticking" ELSE @]

ClientConsume ==
  /\ client.reading
  /\ client.cursor < Len(events)
  /\ client' = [OnFrame(client, events[client.cursor + 1]) EXCEPT !.cursor = @ + 1]
  /\ UNCHANGED <<cfgVars, auxVars, provider, ledger, streamVars, calls, gateVars>>

\* reader.read() reports done once the stream is closed and drained
ClientStreamEnd ==
  /\ client.reading
  /\ client.cursor = Len(events)
  /\ stream.pc = "closed"
  /\ client' = [client EXCEPT !.reading = FALSE]
  /\ UNCHANGED <<cfgVars, auxVars, provider, ledger, streamVars, calls, gateVars>>

\* the polling effect runs: the first poll is sent at once
ClientStartPolling(c) ==
  /\ client.shouldContinuePolling
  /\ client.taskId
  /\ client.effect = "none"
  /\ calls[c].pc = "idle"
  /\ calls' = [calls EXCEPT ![c] = [@ EXCEPT !.pc = "sent", !.from = "client"]]
  /\ client' = [client EXCEPT !.effect = "first", !.first = c]
  /\ UNCHANGED <<cfgVars, auxVars, provider, ledger, streamVars, gateVars>>

\* setInterval(poll, 2000) fires, whether or not earlier polls were answered
ClientTick(c) ==
  /\ client.interval
  /\ calls[c].pc = "idle"
  /\ calls' = [calls EXCEPT ![c] = [@ EXCEPT !.pc = "sent", !.from = "client"]]
  /\ UNCHANGED <<cfgVars, auxVars, provider, ledger, streamVars, client, gateVars>>

\* a poll's response reaches the component
ClientReceive(c) ==
  /\ calls[c].pc = "responded"
  /\ calls[c].from = "client"
  /\ client' = OnPollResponse(client, calls[c], client.effect = "first" /\ client.first = c)
  /\ calls' = [calls EXCEPT ![c] = IdleCall]
  /\ UNCHANGED <<cfgVars, auxVars, provider, ledger, streamVars, gateVars>>

(***************************************************************************)
(* The rate/quota gate (rate-limit module) and the chat route's admission  *)
(***************************************************************************)
Max(a, b) == IF a >= b THEN a ELSE b

Today == 1
CurrentMonth == 1

FreeAccount == [subscription_tier |-> "free", subscription_status |-> "inactive"]

NoRecord ==
  [exists |-> FALSE, usage_count |-> 0, reset_date |-> 0,
   monthly_usage_count |-> 0, monthly_reset_date |-> 0]

\* subscription_status === 'active' && subscription_tier ? subscription_tier : 'free'
Tier(account) ==
  IF account.subscription_status = "active" /\ account.subscription_tier # ""
  THEN account.subscription_tier
  ELSE "free"

\* a check that still admits at the limit
CheckUserRateLimitAtLimit(account, rec, today, currentMonth) ==
  LET tier == Tier(account)
      used == CASE tier = "free" ->
                     IF rec.exists /\ rec.reset_date = today THEN rec.usage_count ELSE 0
                [] tier = "subscription" ->
                     IF rec.exists /\ rec.monthly_reset_date = currentMonth
                     THEN rec.monthly_usage_count ELSE 0
                [] tier = "pay_per_use" -> IF rec.exists THEN rec.usage_count ELSE 0
                [] OTHER -> 0
      limit == CASE tier = "subscription" -> SUBSCRIPTION_MONTHLY_LIMIT
                 [] tier = "pay_per_use" -> UNLIMITED_LIMIT
                 [] OTHER -> FREE_LIMIT
  IN [allowed |-> tier \notin {"free", "subscription"} \/ used <= limit,
      remaining |-> IF tier \in {"free", "subscription"} THEN Max(0, limit - used) ELSE limit,
      limit |-> limit, tier |-> tier, used |-> used]

\* a check that counts what is stored whatever the period it was counted in
CheckUserRateLimitNoReset(account, rec, today, currentMonth) ==
  LET tier == Tier(account)
      used == CASE tier = "free" -> IF rec.exists THEN rec.usage_count ELSE 0
                [] tier = "subscription" -> IF rec.exists THEN rec.monthly_usage_count ELSE 0
                [] tier = "pay_per_use" -> IF rec.exists THEN rec.usage_count ELSE 0
                [] OTHER -> 0
      limit == CASE tier = "subscription" -> SUBSCRIPTION_MONTHLY_LIMIT
                 [] tier = "pay_per_use" -> UNLIMITED_LIMIT
                 [] OTHER -> FREE_LIMIT
  IN [allowed |-> tier \notin {"free", "subscription"} \/ used < limit,
      remaining |-> IF tier \in {"free", "subscription"} THEN Max(0, limit - used) ELSE limit,
      limit |-> limit, tier |-> tier, used |-> used]

\* checkUserRateLimit outside development mode
CheckUserRateLimit(account, rec, today, currentMonth) ==
  LET tier == Tier(account)
  IN CASE tier = "free" ->
            LET used == IF rec.exists /\ rec.reset_date = today THEN rec.usage_count ELSE 0
            IN [allowed |-> used < FREE_LIMIT, remaining |-> Max(0, FREE_LIMIT - used),
                limit |-> FREE_LIMIT, tier |-> tier, used |-> used]
       [] tier = "subscription" ->
            LET used == IF rec.exists /\ rec.monthly_reset_date = currentMonth
                        THEN rec.monthly_usage_count ELSE 0
            IN [allowed |-> used < SUBSCRIPTION_MONTHLY_LIMIT,
                remaining |-> Max(0, SUBSCRIPTION_MONTHLY_LIMIT - used),
                limit |-> SUBSCRIPTION_MONTHLY_LIMIT, tier |-> tier, used |-> used]
       [] tier = "pay_per_use" ->
            [allowed |-> TRUE, remaining |-> UNLIMITED_LIMIT, limit |-> UNLIMITED_LIMIT,
             tier |-> tier, used |-> IF rec.exists THEN rec.usage_count ELSE 0]
       [] OTHER ->
            [allowed |-> TRUE, remaining |-> FREE_LIMIT, limit |-> FREE_LIMIT,
             tier |-> tier, used |-> 0]

\* the row incrementUserRateLimit inserts when it read none
InsertedRecord(tier, today, currentMonth) ==
  [exists |-> TRUE, reset_date |-> today, monthly_reset_date |-> currentMonth,
   usage_count |-> IF tier = "subscription" THEN 0 ELSE 1,
   monthly_usage_count |-> IF tier = "subscription" THEN 1 ELSE 0]

\* an increment that adds to the stored value whatever its period
IncrementWriteNoReset(account, existing, rec, today, currentMonth) ==
  LET tier == Tier(account)
  IN IF ~existing.exists
     THEN IF tier \in {"free", "subscription", "pay_per_use"} /\ ~rec.exists
          THEN InsertedRecord(tier, today, currentMonth)
          ELSE rec
     ELSE CASE tier = "subscription" ->
                 [rec EXCEPT !.monthly_usage_count = existing.monthly_usage_count + 1]
            [] tier \in {"free", "pay_per_use"} ->
                 [rec EXCEPT !.usage_count = existing.usage_count + 1]
            [] OTHER -> rec

\* incrementUserRateLimit after its reads: existing is the row it read, rec
\* the row now stored; it inserts when it read none (user_id is unique), else
\* updates the stored row with the values computed from the row it read
IncrementWrite(account, existing, rec, today, currentMonth) ==
  LET tier == Tier(account)
  IN IF ~existing.exists
     THEN IF tier \in {"free", "subscription", "pay_per_use"} /\ ~rec.exists
          THEN InsertedRecord(tier, today, currentMonth)
          ELSE rec
     ELSE CASE tier = "free" ->
                 IF existing.reset_date # today
                 THEN [rec EXCEPT !.usage_count = 1, !.reset_date = today]
                 ELSE [rec EXCEPT !.usage_count = existing.usage_count + 1]
            [] tier = "subscription" ->
                 IF existing.monthly_reset_date # currentMonth
                 THEN [rec EXCEPT !.monthly_usage_count = 1,
                                  !.monthly_reset_date = currentMonth]
                 ELSE [rec EXCEPT !.monthly_usage_count = existing.monthly_usage_count + 1]
            [] tier = "pay_per_use" ->
                 [rec EXCEPT !.usage_count = existing.usage_count + 1]
            [] OTHER -> rec

\* the role lists of the requests' messages
MessageLists ==
  { << >>, <<"user">>, <<"user", "assistant">>, <<"user", "assistant", "user">> }

\* isUserMessage && userMessageCount === 1
IsUserInitiated(messages) ==
  /\ Len(messages) > 0
  /\ messages[Len(messages)] = "user"
  /\ Cardinality({i \in 1..Len(messages) : messages[i] = "user"}) = 1

Reqs == 1..NReqs

\* userData?.subscription_tier || 'free': the tier the route reads for the
\* model and for the pay-per-use event
UserTier(account) ==
  IF account.subscription_tier # "" THEN account.subscription_tier ELSE "free"

\* userTier === 'unlimited' || userTier === 'pay_per_use' ? 'heavy' : 'lite'
ResearchModel(userTier) == IF userTier \in {"unlimited", "pay_per_use"} THEN "heavy" ELSE "lite"

\* model: the research model of the task; tracked: the pay-per-use event of the task
IdleReq ==
  [pc |-> "idle", messages |-> << >>, wouldAllow |-> TRUE, task |-> FALSE,
   incremented |-> FALSE, existing |-> NoRecord, model |-> "", tracked |-> FALSE]

GateCheck == CheckUserRateLimit(gate.account, gate.rec, gate.today, gate.currentMonth)

\* POST up to the rate limit check: validateAccess, then the gate for
\* user-initiated messages outside development mode
ReqGate(r) ==
  /\ reqs[r].pc = "idle"
  /\ \E messages \in MessageLists, paymentRequired \in BOOLEAN :
       LET dev == (mode = "development")
           metered == IsUserInitiated(messages) /\ ~dev
           verdict == CASE ~dev /\ paymentRequired -> "r402"
                        [] metered /\ ~GateCheck.allowed -> "r429"
                        [] OTHER -> "gated"
       IN reqs' = [reqs EXCEPT ![r] = [@ EXCEPT !.pc = verdict, !.messages = messages,
                                               !.wouldAllow = GateCheck.allowed]]
  /\ UNCHANGED <<cfgVars, auxVars, provider, ledger, streamVars, calls, client, gate>>

\* a route that goes on to the increment whatever the provider answered
ReqCreateTaskSpeculative(r) ==
  /\ reqs[r].pc = "gated"
  /\ \E created \in BOOLEAN :
       LET metered == IsUserInitiated(reqs[r].messages) /\ mode # "development"
           userTier == UserTier(gate.account)
       IN reqs' = [reqs EXCEPT ![r] =
                     [@ EXCEPT !.task = created /\ Len(reqs[r].messages) > 0,
                               !.model = ResearchModel(userTier),
                               !.tracked = (mode # "development" /\ userTier = "pay_per_use"),
                               !.pc = IF metered THEN "created" ELSE "ok200"]]
  /\ UNCHANGED <<cfgVars, auxVars, provider, ledger, streamVars, calls, client, gate>>

\* POST from the research query to the pay-per-use event: the model is
\* chosen, the provider answers the creation of the task, the event is tracked
ReqCreateTask(r) ==
  /\ reqs[r].pc = "gated"
  /\ \E created \in BOOLEAN :
       LET metered == IsUserInitiated(reqs[r].messages) /\ mode # "development"
           userTier == UserTier(gate.account)
       IN reqs' = [reqs EXCEPT ![r] =
                     IF Len(reqs[r].messages) = 0 \/ ~created
                     THEN [@ EXCEPT !.pc = "r500"]
                     ELSE [@ EXCEPT !.task = TRUE,
                                    !.model = ResearchModel(userTier),
                                    !.tracked = (mode # "development"
                                                   /\ userTier = "pay_per_use"),
                                    !.pc = IF metered THEN "created" ELSE "ok200"]]
  /\ UNCHANGED <<cfgVars, auxVars, provider, ledger, streamVars, calls, client, gate>>

\* incrementUserRateLimit: read the account's row
ReqIncrementRead(r) ==
  /\ reqs[r].pc = "created"
  /\ reqs' = [reqs EXCEPT ![r] = [@ EXCEPT !.pc = "incrementing", !.incremented = TRUE,
                                          !.existing = gate.rec]]
  /\ UNCHANGED <<cfgVars, auxVars, provider, ledger, streamVars, calls, client, gate>>

\* incrementUserRateLimit: insert or update, then the stream response is returned
ReqIncrementWrite(r) ==
  /\ reqs[r].pc = "incrementing"
  /\ gate' = [gate EXCEPT !.rec = IncrementWrite(gate.account, reqs[r].existing, gate.rec,
                                                 gate.today, gate.currentMonth)]
  /\ reqs' = [reqs EXCEPT ![r] = [@ EXCEPT !.pc = "ok200"]]
  /\ UNCHANGED <<cfgVars, auxVars, provider, ledger, streamVars, calls, client>>

(***************************************************************************)
(* The rate-limit module called by itself: check and increment             *)
(***************************************************************************)
\* the cookie of the anonymous identity: absent, or the encoded count
NoCookie == [set |-> FALSE, b64 |-> 0]

\* btoa(count.toString())
EncodeCookieData(count) == [set |-> TRUE, b64 |-> count]

\* parseInt(atob(encoded)) || 0, and 0 without a cookie
DecodeCookieData(encoded) == IF encoded.set THEN encoded.b64 ELSE 0

\* getCookie: null where there is no window (on the server)
GetCookie(an) == IF an.window THEN an.cookie ELSE NoCookie

\* setCookieWithExpiry: nothing where there is no window
SetCookieWithExpiry(an, value) == IF an.window THEN [an EXCEPT !.cookie = value] ELSE an

\* the answer of both checks in development mode
DevelopmentResult ==
  [allowed |-> TRUE, remaining |-> UNLIMITED_LIMIT, limit |-> UNLIMITED_LIMIT,
   tier |-> "development", used |-> 0]

\* checkAnonymousRateLimit
CheckAnonymousRateLimit(dev, an) ==
  IF dev THEN DevelopmentResult
  ELSE LET used == DecodeCookieData(GetCookie(an))
       IN [allowed |-> used < ANONYMOUS_LIMIT, remaining |-> Max(0, ANONYMOUS_LIMIT - used),
           limit |-> ANONYMOUS_LIMIT, tier |-> "anonymous", used |-> used]

\* incrementAnonymousRateLimit: the cookie afterwards and the answer
IncrementAnonymousRateLimit(an) ==
  LET newCount == DecodeCookieData(GetCookie(an)) + 1
  IN [anon |-> SetCookieWithExpiry(an, EncodeCookieData(newCount)),
      result |-> [allowed |-> newCount <= ANONYMOUS_LIMIT,
                  remaining |-> Max(0, ANONYMOUS_LIMIT - newCount),
                  limit |-> ANONYMOUS_LIMIT, tier |-> "anonymous", used |-> newCount]]

\* checkUserRateLimit, with its development branch
CheckUser(dev, account, rec, today, currentMonth) ==
  IF dev THEN DevelopmentResult ELSE CheckUserRateLimit(account, rec, today, currentMonth)

\* cookie0: the cookie at the start; increments: the increments called since
AnonIdle == [window |-> FALSE, cookie |-> NoCookie, cookie0 |-> NoCookie, increments |-> 0]

NoProbe ==
  [op |-> "none", who |-> "none", before |-> NoRecord, result |-> DevelopmentResult,
   increments |-> 0]

\* checkUserRateLimit(userId)
ProbeCheckUser ==
  /\ probe' = [op |-> "check", who |-> "user", before |-> gate.rec,
               result |-> CheckUser(mode = "development", gate.account, gate.rec,
                                    gate.today, gate.currentMonth),
               increments |-> probe.increments]
  /\ UNCHANGED <<cfgVars, provider, ledger, streamVars, calls, client, gateVars, conn, anon, chat, tok, bridge, libVars>>

\* checkAnonymousRateLimit()
ProbeCheckAnonymous ==
  /\ probe' = [op |-> "check", who |-> "anonymous", before |-> NoRecord,
               result |-> CheckAnonymousRateLimit(mode = "development", anon),
               increments |-> probe.increments]
  /\ UNCHANGED <<cfgVars, provider, ledger, streamVars, calls, client, gateVars, conn, anon, chat, tok, bridge, libVars>>

\* incrementRateLimit(userId), run from its reads to its answer
ProbeIncrementUser ==
  /\ probe.increments < MaxIncrements
  /\ LET dev == (mode = "development")
         rec == IF dev THEN gate.rec
                ELSE IncrementWrite(gate.account, gate.rec, gate.rec, gate.today,
                                    gate.currentMonth)
     IN /\ gate' = [gate EXCEPT !.rec = rec]
        /\ probe' = [op |-> "increment", who |-> "user", before |-> gate.rec,
                     result |-> CheckUser(dev, gate.account, rec, gate.today,
                                          gate.currentMonth),
                     increments |-> probe.increments + 1]
  /\ UNCHANGED <<cfgVars, provider, ledger, streamVars, calls, client, reqs, conn, anon, chat, tok, bridge, libVars>>

\* incrementRateLimit(), for the anonymous identity
ProbeIncrementAnonymous ==
  /\ anon.increments < MaxIncrements
  /\ LET dev == (mode = "development")
         inc == IncrementAnonymousRateLimit(anon)
     IN /\ anon' = [(IF dev THEN anon ELSE inc.anon) EXCEPT !.increments = @ + 1]
        /\ probe' = [op |-> "increment", who |-> "anonymous", before |-> NoRecord,
                     result |-> IF dev THEN CheckAnonymousRateLimit(dev, anon)
                                ELSE inc.result,
                     increments |-> probe.increments]
  /\ UNCHANGED <<cfgVars, provider, ledger, streamVars, calls, client, gateVars, conn, chat, tok, bridge, libVars>>

(***************************************************************************)
(* The chat route from the request to its response                         *)
(***************************************************************************)
NoChat ==
  [pc |-> "none", token |-> FALSE, user |-> FALSE, sessionId |-> FALSE,
   messages |-> << >>, answer |-> "none", http |-> 0, error |-> ""]

\* no research_tasks row for the task
NoRow == [status |-> "none", writes |-> 0, lost |-> FALSE]

\* the response stream is not constructed
Unopened == [StreamStart(0) EXCEPT !.pc = "unopened"]

\* what the provider answers to the creation of a task
CreationAnswers == {"ok", "402", "rejected", "unreachable"}

\* a route that answers every rejected creation with the generic error
CreationFailureGeneric(answer) == [http |-> 500, error |-> "CHAT_ERROR"]

\* if (!taskResponse.ok): 402 is answered as such, anything else is thrown
\* to the route's catch
CreationFailure(answer) ==
  IF answer = "402" THEN [http |-> 402, error |-> "INSUFFICIENT_CREDITS"]
  ELSE [http |-> 500, error |-> "CHAT_ERROR"]

Answered(c, http, error) == [c EXCEPT !.pc = "answered", !.http = http, !.error = error]

\* REQUIRE Valyu sign-in for all queries (except self-hosted mode)
ChatAuthorize ==
  /\ chat.pc = "received"
  /\ chat' = IF mode # "development" /\ ~chat.token
             THEN Answered(chat, 401, "AUTH_REQUIRED")
             ELSE [chat EXCEPT !.pc = "authorized"]
  /\ UNCHANGED <<cfgVars, provider, ledger, streamVars, calls, client, gateVars, conn, anon,
                 probe, tok, bridge, libVars>>

\* save the user message, then build the research query from the last message
ChatSaveUserMessage ==
  /\ chat.pc = "authorized"
  /\ \E saveOk \in BOOLEAN :
       LET n == Len(chat.messages)
           saves == chat.user /\ chat.sessionId /\ n > 0 /\ chat.messages[n] = "user"
       IN chat' = IF n = 0 \/ (saves /\ ~saveOk)
                  THEN Answered(chat, 500, "CHAT_ERROR")
                  ELSE [chat EXCEPT !.pc = "saved"]
  /\ UNCHANGED <<cfgVars, provider, ledger, streamVars, calls, client, gateVars, conn, anon,
                 probe, tok, bridge, libVars>>

\* create the task at the provider, record it, construct the stream
ChatCreateTask ==
  /\ chat.pc = "saved"
  /\ \E answer \in CreationAnswers, dbOk \in BOOLEAN :
       IF answer = "ok"
       THEN /\ chat' = [Answered(chat, 200, "") EXCEPT !.answer = answer]
            /\ ledger' = IF mode # "development" /\ chat.user /\ dbOk
                         THEN [status |-> "queued", writes |-> 0, lost |-> FALSE]
                         ELSE ledger
            /\ stream' = StreamStart(0)
            /\ ref' = StreamStart(0)
            /\ events' = InitialFrames
            /\ refEvents' = InitialFrames
       ELSE /\ chat' = [Answered(chat, CreationFailure(answer).http,
                                 CreationFailure(answer).error) EXCEPT !.answer = answer]
            /\ UNCHANGED <<ledger, stream, ref, events, refEvents>>
  /\ UNCHANGED <<cfgVars, provider, elapsed, calls, client, gateVars, conn, anon, probe, tok, bridge, libVars>>

(***************************************************************************)
(* The token endpoint (POST /api/auth/valyu/token)                         *)
(***************************************************************************)
AppCallback == "https://app.example/auth/valyu/callback"

\* allowedRedirectUris
AllowedRedirectUris ==
  { AppCallback,
    "http://localhost:3000/auth/valyu/callback",
    "http://localhost:3001/auth/valyu/callback" }

\* the redirect_uri values of the requests; "" stands for a missing or empty one
RedirectUris ==
  AllowedRedirectUris \cup {"", "https://evil.example/auth/valyu/callback"}

NoTokenRequest ==
  [pc |-> "none", bodyOk |-> TRUE, configured |-> TRUE, redirect_uri |-> "",
   grant_type |-> "", refresh_token |-> FALSE, code |-> FALSE, code_verifier |-> FALSE,
   forwarded |-> "none", http |-> 0, error |-> ""]

TokenAnswered(t, http, error) ==
  [t EXCEPT !.pc = "answered", !.http = http, !.error = error]

\* request.json(), the configuration and the redirect_uri
TokenValidate ==
  /\ tok.pc = "received"
  /\ tok' = CASE ~tok.bodyOk -> TokenAnswered(tok, 500, "server_error")
              [] ~tok.configured -> TokenAnswered(tok, 500, "server_error")
              [] tok.redirect_uri # "" /\ tok.redirect_uri \notin AllowedRedirectUris ->
                   TokenAnswered(tok, 400, "invalid_request")
              [] OTHER -> [tok EXCEPT !.pc = "validated"]
  /\ UNCHANGED <<cfgVars, provider, ledger, streamVars, calls, client, gateVars, conn, anon,
                 probe, chat, bridge, libVars>>

\* the token request that is built: the flow it belongs to, or none
TokenParams(t) ==
  CASE t.grant_type = "refresh_token" /\ t.refresh_token -> "refresh_token"
    [] t.code /\ t.code_verifier -> "authorization_code"
    [] OTHER -> "none"

\* what the identity provider does with a forwarded token request
ProviderTokenAnswers == {"ok", "400", "401", "unreachable"}

\* build the token request, forward it, answer
TokenExchange ==
  /\ tok.pc = "validated"
  /\ IF TokenParams(tok) = "none"
     THEN tok' = TokenAnswered(tok, 400, "invalid_request")
     ELSE \E answer \in ProviderTokenAnswers :
            LET t == [tok EXCEPT !.forwarded = TokenParams(tok)]
            IN tok' = CASE answer = "ok" -> TokenAnswered(t, 200, "")
                        [] answer = "400" -> TokenAnswered(t, 400, "token_exchange_failed")
                        [] answer = "401" -> TokenAnswered(t, 401, "token_exchange_failed")
                        [] OTHER -> TokenAnswered(t, 500, "server_error")
  /\ UNCHANGED <<cfgVars, provider, ledger, streamVars, calls, client, gateVars, conn, anon,
                 probe, chat, bridge, libVars>>

(***************************************************************************)
(* The session bridge (POST /api/auth/valyu/session), from the create of   *)
(* step 3 on: every call carries the same federated email                  *)
(***************************************************************************)
perPage == 1000
pageLimit == 10

Logins == 1..NLogins

\* The accounts of the store in listing order: size of them in all, mine the
\* ones with the federated email (id and position), the others under other
\* emails.
NoUsers == [size |-> 0, mine |-> {}, nextId |-> 1, signups |-> 0]

\* where the store may list an account it adds: the order is the store's
InsertPositions(size) ==
  { p \in {1, perPage + 1, perPage * pageLimit, perPage * pageLimit + 1, size + 1} :
      p <= size + 1 }

Shifted(mine, p) ==
  { [a EXCEPT !.pos = IF a.pos >= p THEN a.pos + 1 ELSE a.pos] : a \in mine }

\* auth.admin.createUser: the store refuses an email it already holds
CreateUser(users, p) ==
  IF users.mine # {}
  THEN [createError |-> "email_exists", users |-> users, id |-> 0]
  ELSE [createError |-> "",
        users |-> [users EXCEPT !.size = @ + 1, !.nextId = @ + 1,
                                !.mine = {[id |-> users.nextId, pos |-> p]}],
        id |-> users.nextId]

\* auth.admin.listUsers({page, perPage}): how many accounts the page holds,
\* and those among them with the federated email
PageLength(users, page) ==
  Max(0, (IF users.size < page * perPage THEN users.size ELSE page * perPage)
           - (page - 1) * perPage)

PageMine(users, page) ==
  { a \in users.mine : a.pos > (page - 1) * perPage /\ a.pos <= page * perPage }

\* usersPage.users.find(u => u.email === valyuUser.email): the first match
Find(users, page) ==
  LET found == PageMine(users, page)
  IN IF found = {} THEN 0
     ELSE (CHOOSE a \in found : \A b \in found : a.pos <= b.pos).id

IdleLogin == [pc |-> "identified", page |-> 1, userId |-> 0, error |-> "", storeError |-> FALSE]

NoBridge == [users |-> NoUsers, logins |-> [i \in Logins |-> IdleLogin]]

\* step 3: try to create the account first
BridgeCreateUser(i) ==
  LET l == bridge.logins[i]
  IN /\ l.pc = "identified"
     /\ \/ \E p \in InsertPositions(bridge.users.size) :
             LET r == CreateUser(bridge.users, p)
             IN bridge' =
                  [users |-> r.users,
                   logins |-> [bridge.logins EXCEPT ![i] =
                      IF r.createError = "email_exists"
                      THEN [l EXCEPT !.pc = "lookup", !.page = 1]
                      ELSE [l EXCEPT !.pc = "resolved", !.userId = r.id]]]
        \/ bridge' = [bridge EXCEPT !.logins[i] =
                        [l EXCEPT !.pc = "failed", !.error = "create_user_failed",
                                  !.storeError = TRUE]]
     /\ UNCHANGED <<cfgVars, provider, ledger, streamVars, calls, client, gateVars, conn, anon,
                    probe, chat, tok, libVars>>

\* one turn of the lookup loop: list a page, search it, move on
BridgeListUsers(i) ==
  LET l == bridge.logins[i]
      lookupFailed == [l EXCEPT !.pc = "failed", !.error = "user_lookup_failed"]
  IN /\ l.pc = "lookup"
     /\ \/ bridge' = [bridge EXCEPT !.logins[i] =
             IF PageLength(bridge.users, l.page) = 0 THEN lookupFailed
             ELSE IF Find(bridge.users, l.page) # 0
                  THEN [l EXCEPT !.pc = "resolved", !.userId = Find(bridge.users, l.page)]
                  ELSE IF l.page + 1 > pageLimit THEN lookupFailed
                       ELSE [l EXCEPT !.page = @ + 1]]
        \/ bridge' = [bridge EXCEPT !.logins[i] = [lookupFailed EXCEPT !.storeError = TRUE]]
     /\ UNCHANGED <<cfgVars, provider, ledger, streamVars, calls, client, gateVars, conn, anon,
                    probe, chat, tok, libVars>>

\* an account under another email is added meanwhile
OtherSignup ==
  /\ bridge.users.signups < MaxSignups
  /\ \E p \in InsertPositions(bridge.users.size) :
       bridge' = [bridge EXCEPT !.users =
                    [@ EXCEPT !.size = @ + 1, !.signups = @ + 1, !.mine = Shifted(@, p)]]
  /\ UNCHANGED <<cfgVars, provider, ledger, streamVars, calls, client, gateVars, conn, anon,
                 probe, chat, tok, libVars>>

(***************************************************************************)
(* The research query of the two chat routes                               *)
(***************************************************************************)
\* the prompt chat/route.ts substitutes
DefaultPrompt(name) ==
  "Provide a comprehensive historical overview of this location, covering major events, cultural significance, and key developments throughout history.\n\nLocation: "
    \o name

\* the prompt the rate-limited route substitutes
DefaultAnalysisPrompt(name) ==
  "Provide a comprehensive historical analysis of " \o name \o ". Include:\n"
    \o "- Major historical events and periods\n"
    \o "- Key historical figures and their contributions\n"
    \o "- Cultural and architectural heritage\n"
    \o "- Economic and political development through history\n"
    \o "- Social and demographic changes over time\n"
    \o "- Important archaeological findings or historical sites\n"
    \o "- Timeline of significant dates and events\n\n"
    \o "Please be thorough and well-researched, citing historical sources where possible."

\* lastMessage.content is a string or an array of parts; location may be absent
NoLocation == [present |-> FALSE, name |-> ""]

\* typeof lastMessage.content === 'string' ? lastMessage.content : ''
ContentText(content) == IF content.type = "string" THEN content.text ELSE ""

\* chat/route.ts: the default prompt for a bare location mention
ResearchQuery(content, location) ==
  LET researchQuery == ContentText(content)
      isDefaultMessage ==
        /\ location.present
        /\ \/ researchQuery = "Research the history of " \o location.name
           \/ researchQuery = location.name
  IN IF isDefaultMessage THEN DefaultPrompt(location.name) ELSE researchQuery

\* the rate-limited route: the default prompt for any text under 100 characters
ResearchQueryByLength(content, location) ==
  LET researchQuery == ContentText(content)
  IN IF location.present /\ Len(researchQuery) < 100
     THEN DefaultAnalysisPrompt(location.name)
     ELSE researchQuery

NoQuery == [pc |-> "none", route |-> "", content |-> [type |-> "string", text |-> ""],
            location |-> NoLocation, researchQuery |-> ""]

\* POST of chat/route.ts builds the query it sends to the provider
ChatResearchQuery ==
  /\ query.pc = "received"
  /\ query.route = "chat"
  /\ query' = [query EXCEPT !.pc = "sent",
                            !.researchQuery = ResearchQuery(query.content, query.location)]
  /\ UNCHANGED <<baseVars, poller, clock, signin, auth>>

\* POST of the rate-limited route builds the query it sends to the provider
GatedResearchQuery ==
  /\ query.pc = "received"
  /\ query.route = "gated"
  /\ query' = [query EXCEPT !.pc = "sent",
                            !.researchQuery = ResearchQueryByLength(query.content, query.location)]
  /\ UNCHANGED <<baseVars, poller, clock, signin, auth>>

(***************************************************************************)
(* The polling effect of the research interface                            *)
(* useEffect(() => {...}, [shouldContinuePolling, taskId])                 *)
(***************************************************************************)
Effects == 1..NEffects

\* one run of the effect: where startPolling stands, the closure's
\* pollingInterval (assigned or not), whether the interval it created is
\* active, whether its cleanup has run, the interval's polls in flight
NoEffect == [pc |-> "none", pollingInterval |-> FALSE, timer |-> FALSE, cleaned |-> FALSE,
             inflight |-> 0, ticks |-> 0]

NoPoller == [mounted |-> TRUE, shouldContinuePolling |-> FALSE,
             run |-> [g \in Effects |-> NoEffect]]

PollResults == {"running", "completed", "error"}

\* poll(): completed or a thrown error ends polling and clears the closure's
\* interval if it is assigned
Poll(e, res) ==
  IF res \in {"completed", "error"} /\ e.pollingInterval THEN [e EXCEPT !.timer = FALSE] ELSE e

\* the effect's cleanup: if (pollingInterval) clearInterval(pollingInterval)
Cleanup(e) ==
  [e EXCEPT !.cleaned = TRUE, !.timer = IF e.pollingInterval THEN FALSE ELSE @]

\* a poll's result on the component's state: setShouldContinuePolling(false)
AfterPoll(should, res) == IF res \in {"completed", "error"} THEN FALSE ELSE should

\* the effect runs: startPolling() sends the first poll and awaits it
PollingEffectRun(g) ==
  /\ poller.mounted
  /\ poller.shouldContinuePolling
  /\ poller.run[g].pc = "none"
  /\ \A h \in Effects : h < g => poller.run[h].cleaned
  /\ poller' = [poller EXCEPT !.run[g].pc = "first"]
  /\ UNCHANGED <<baseVars, query, clock, signin, auth>>

\* await poll() returns; then pollingInterval = setInterval(poll, 2000)
FirstPollReturns(g) ==
  /\ poller.run[g].pc = "first"
  /\ \E res \in PollResults :
       poller' = [poller EXCEPT
         !.shouldContinuePolling = AfterPoll(@, res),
         !.run[g] = [Poll(@, res) EXCEPT !.pc = "started", !.pollingInterval = TRUE,
                                         !.timer = TRUE]]
  /\ UNCHANGED <<baseVars, query, clock, signin, auth>>

\* the interval fires: poll() sends a request
IntervalTick(g) ==
  /\ poller.run[g].timer
  /\ poller.run[g].ticks < MaxTicks
  /\ poller' = [poller EXCEPT !.run[g].inflight = @ + 1, !.run[g].ticks = @ + 1]
  /\ UNCHANGED <<baseVars, query, clock, signin, auth>>

\* a poll sent by the interval returns
IntervalPollReturns(g) ==
  /\ poller.run[g].inflight > 0
  /\ \E res \in PollResults :
       poller' = [poller EXCEPT
         !.shouldContinuePolling = AfterPoll(@, res),
         !.run[g] = [Poll(@, res) EXCEPT !.inflight = @ - 1]]
  /\ UNCHANGED <<baseVars, query, clock, signin, auth>>

\* the component re-renders after polling was switched off (or the task
\* changed): the run's cleanup
PollingEffectCleanup(g) ==
  /\ poller.mounted
  /\ poller.run[g].pc # "none"
  /\ ~poller.run[g].cleaned
  /\ poller' = [poller EXCEPT !.run[g] = Cleanup(@)]
  /\ UNCHANGED <<baseVars, query, clock, signin, auth>>

\* the component unmounts: the cleanup of the run that is live
Unmount ==
  /\ poller.mounted
  /\ poller' = [poller EXCEPT
       !.mounted = FALSE,
       !.run = [g \in Effects |->
                  IF poller.run[g].pc # "none" /\ ~poller.run[g].cleaned
                  THEN Cleanup(poller.run[g]) ELSE poller.run[g]]]
  /\ UNCHANGED <<baseVars, query, clock, signin, auth>>

(***************************************************************************)
(* The reset time of the daily limit; time in hours since the epoch (UTC)  *)
(***************************************************************************)
HoursPerDay == 24

\* the server's zone: local time minus UTC, in hours
Offsets == {-5, 0, 2}

\* new Date().toISOString().split('T')[0]: the UTC date
IsoDate(now) == now \div HoursPerDay

\* getNextMidnight: tomorrow.setDate(getDate() + 1); setHours(0, 0, 0, 0),
\* both in local time; the result as a UTC instant
GetNextMidnight(now, offset) ==
  (((now + offset) \div HoursPerDay) + 1) * HoursPerDay - offset

NoCheck == [at |-> 0, allowed |-> TRUE, used |-> 0, resetTime |-> 0]

NoClock == [pc |-> "none", now |-> 0, offset |-> 0, rec |-> NoRecord,
            first |-> NoCheck, last |-> NoCheck]

\* checkUserRateLimit(userId) of the free account at the clock's time
ClockedCheck(c) ==
  LET r == CheckUserRateLimit(FreeAccount, c.rec, IsoDate(c.now), CurrentMonth)
  IN [at |-> c.now, allowed |-> r.allowed, used |-> r.used,
      resetTime |-> GetNextMidnight(c.now, c.offset)]

\* the check that finds the account at its daily limit
ClockCheckAtLimit ==
  /\ clock.pc = "start"
  /\ ~ClockedCheck(clock).allowed
  /\ clock' = [clock EXCEPT !.pc = "limited", !.first = ClockedCheck(clock)]
  /\ UNCHANGED <<baseVars, query, poller, signin, auth>>

\* an hour passes
ClockTick ==
  /\ clock.pc \in {"limited", "checked"}
  /\ clock.now - clock.first.at < MaxHours
  /\ clock' = [clock EXCEPT !.now = @ + 1]
  /\ UNCHANGED <<baseVars, query, poller, signin, auth>>

\* a later check of the same account
ClockCheck ==
  /\ clock.pc \in {"limited", "checked"}
  /\ clock' = [clock EXCEPT !.pc = "checked", !.last = ClockedCheck(clock)]
  /\ UNCHANGED <<baseVars, query, poller, signin, auth>>

(***************************************************************************)
(* The sign-in completion page (CompleteAuthContent.handleCallback) and    *)
(* the library's validateCallback                                          *)
(***************************************************************************)
\* the state values of a callback: none (""), the one stored when the flow
\* began, another one
CallbackStates == {"", "s1", "s2"}

NoPKCE == [state |-> "", verifier |-> FALSE]

\* began: the state stored when the flow began; sent: the code was sent to
\* the token endpoint; valid: validateCallback's verdict
NoSignin == [pc |-> "none", via |-> "", code |-> FALSE, state |-> "", error |-> FALSE,
             stored |-> NoPKCE, began |-> "", sent |-> FALSE, status |-> "loading",
             valid |-> FALSE]

\* validateCallback(returnedState, code, error), storedState from retrievePKCEData
ValidateCallback(returnedState, code, error, storedState) ==
  /\ ~error
  /\ code
  /\ ~(returnedState = "" \/ returnedState # storedState)

\* handleCallback up to the request to the token endpoint
HandleCallback ==
  /\ signin.pc = "callback"
  /\ signin.via = "page"
  /\ LET storedState == signin.stored.state
         storedVerifier == signin.stored.verifier
         stops == \/ signin.error
                  \/ ~signin.code
                  \/ (signin.state # "" /\ storedState # "" /\ signin.state # storedState)
                  \/ ~storedVerifier
     IN IF stops
        THEN /\ signin' = [signin EXCEPT !.pc = "done", !.status = "error"]
             /\ tok' = tok
        ELSE /\ signin' = [signin EXCEPT !.pc = "exchanging", !.stored = NoPKCE,
                                         !.sent = TRUE]
             /\ tok' = [NoTokenRequest EXCEPT !.pc = "received", !.code = TRUE,
                                              !.code_verifier = TRUE,
                                              !.redirect_uri = AppCallback]
  /\ UNCHANGED <<cfgVars, provider, ledger, streamVars, calls, client, gateVars, conn, anon,
                 probe, chat, bridge, query, poller, clock, auth>>

\* the token endpoint has answered: completeValyuAuth, or the error
CallbackTokenResponse ==
  /\ signin.pc = "exchanging"
  /\ tok.pc = "answered"
  /\ \E sessionOk \in BOOLEAN :
       signin' = [signin EXCEPT !.pc = "done",
                    !.status = IF tok.http = 200 /\ sessionOk THEN "success" ELSE "error"]
  /\ UNCHANGED <<baseVars, query, poller, clock, auth>>

\* the library's check of the same callback; retrievePKCEData clears the store
LibValidateCallback ==
  /\ signin.pc = "callback"
  /\ signin.via = "library"
  /\ signin' = [signin EXCEPT !.pc = "done", !.stored = NoPKCE,
                  !.valid = ValidateCallback(signin.state, signin.code, signin.error,
                                             signin.stored.state)]
  /\ UNCHANGED <<baseVars, query, poller, clock, auth>>

(***************************************************************************)
(* The stored tokens and getValidAccessToken; time in minutes              *)
(***************************************************************************)
\* the expiry of the stored access token
TokenExpiresAt == 10

NoTokens == [present |-> FALSE, accessToken |-> "", refreshToken |-> FALSE, expiresAt |-> 0]

\* had, at: the stored tokens and the time when the call began; attempted: a
\* refresh request was sent; refreshOk: it succeeded
NoAuth == [pc |-> "none", now |-> 0, tokens |-> NoTokens, had |-> NoTokens,
           attempted |-> FALSE, refreshOk |-> FALSE, result |-> ""]

\* loadValyuTokens: null without stored tokens; expired tokens are cleared
\* and null is returned
LoadValyuTokens(stored, now) ==
  IF ~stored.present THEN [tokens |-> NoTokens, stored |-> stored]
  ELSE IF stored.expiresAt # 0 /\ now >= stored.expiresAt
       THEN [tokens |-> NoTokens, stored |-> NoTokens]
       ELSE [tokens |-> stored, stored |-> stored]

\* getValidAccessToken up to its return or to the refresh request
GetValidAccessToken ==
  /\ auth.pc = "call"
  /\ LET loaded == LoadValyuTokens(auth.tokens, auth.now)
         tokens == loaded.tokens
         isExpiringSoon == tokens.expiresAt # 0
                             /\ auth.now >= tokens.expiresAt - refreshWindowMin
         a == [auth EXCEPT !.tokens = loaded.stored]
     IN auth' = IF ~tokens.present
                THEN [a EXCEPT !.pc = "done", !.result = "null"]
                ELSE IF isExpiringSoon /\ tokens.refreshToken
                     THEN [a EXCEPT !.pc = "refreshing", !.attempted = TRUE]
                     ELSE [a EXCEPT !.pc = "done", !.result = tokens.accessToken]
  /\ UNCHANGED <<baseVars, query, poller, clock, signin>>

\* refreshAccessToken's request returns
RefreshReturns ==
  /\ auth.pc = "refreshing"
  /\ \E ok \in BOOLEAN :
       auth' = IF ok
               THEN [auth EXCEPT !.pc = "done", !.refreshOk = TRUE, !.result = "new",
                       !.tokens = [@ EXCEPT !.accessToken = "new",
                                            !.expiresAt = auth.now + TokenExpiresAt]]
               ELSE [auth EXCEPT !.pc = "done", !.result = auth.tokens.accessToken]
  /\ UNCHANGED <<baseVars, query, poller, clock, signin>>

(***************************************************************************)
(* Initial states                                                          *)
(***************************************************************************)
LedgerInit == [status |-> "queued", writes |-> 0, lost |-> FALSE]

IdleCalls == [c \in Calls |-> IdleCall]

IdleReqs == [r \in Reqs |-> IdleReq]

\* users rows: subscription_tier is free, pay_per_use, subscription or null
Accounts ==
  { FreeAccount,
    [subscription_tier |-> "subscription", subscription_status |-> "active"],
    [subscription_tier |-> "subscription", subscription_status |-> "canceled"],
    [subscription_tier |-> "pay_per_use", subscription_status |-> "active"],
    [subscription_tier |-> "pay_per_use", subscription_status |-> "canceled"],
    [subscription_tier |-> "", subscription_status |-> "active"] }

\* users rows of a table without the tier check: a tier name the route's
\* model selection still tests for
UnknownTierAccounts ==
  { [subscription_tier |-> "unlimited", subscription_status |-> "active"] }

\* rec0: the row at the start, kept for reference
GateIdle ==
  [account |-> FreeAccount, rec |-> NoRecord, rec0 |-> NoRecord,
   today |-> Today, currentMonth |-> CurrentMonth]

\* the parts of the application a specification leaves idle
LibIdle ==
  /\ query = NoQuery
  /\ poller = NoPoller
  /\ clock = NoClock
  /\ signin = NoSignin
  /\ auth = NoAuth

AuxIdle ==
  /\ conn = "connected"
  /\ anon = AnonIdle
  /\ probe = NoProbe
  /\ chat = NoChat
  /\ tok = NoTokenRequest
  /\ bridge = NoBridge
  /\ LibIdle

\* a task was created and its stream started, polls iterations ago
StreamInit(polls) ==
  /\ provider = ProviderInit
  /\ ledger = LedgerInit
  /\ stream = StreamStart(polls)
  /\ ref = StreamStart(polls)
  /\ elapsed = polls * pollIntervalSec
  /\ events = InitialFrames
  /\ refEvents = InitialFrames

(***************************************************************************)
(* Spec: one stream against a provider                                     *)
(***************************************************************************)
Init ==
  /\ mode \in {"production", "development"}
  /\ hasSession \in BOOLEAN
  /\ hosted = FALSE
  /\ \E polls \in {0, maxPolls - NearBudget} : StreamInit(polls)
  /\ calls = IdleCalls
  /\ client = ClientIdle
  /\ gate = GateIdle
  /\ reqs = IdleReqs
  /\ AuxIdle

Next ==
  \/ ProviderRun
  \/ ProviderAppend
  \/ ProviderComplete
  \/ ProviderFail
  \/ StreamPoll
  \/ StreamHandle
  \/ StreamExit

Spec == Init /\ [][Next]_vars

(***************************************************************************)
(* SpecLedger: the stream and calls of the poll endpoint on one task       *)
(***************************************************************************)
InitLedger ==
  /\ mode \in {"production", "development"}
  /\ hasSession = FALSE
  /\ hosted = FALSE
  /\ \E polls \in {0, maxPolls - NearBudget} : StreamInit(polls)
  /\ calls = IdleCalls
  /\ client = ClientIdle
  /\ gate = GateIdle
  /\ reqs = IdleReqs
  /\ AuxIdle

NextLedger ==
  \/ ProviderRun
  \/ ProviderComplete
  \/ ProviderFail
  \/ StreamPoll
  \/ StreamHandle
  \/ StreamExit
  \/ \E c \in Calls : CallerSend(c)
  \/ \E c \in Calls : EndpointFetch(c)
  \/ \E c \in Calls : EndpointRespond(c)

SpecLedger == InitLedger /\ [][NextLedger]_vars

(***************************************************************************)
(* SpecClient: the component reads the stream, then polls the endpoint     *)
(***************************************************************************)
\* runResearch has posted the query: status 'queued', the reader is attached
InitClient ==
  /\ mode \in {"production", "development"}
  /\ hasSession = FALSE
  /\ hosted = FALSE
  /\ \E polls \in {0, maxPolls - NearBudget} : StreamInit(polls)
  /\ calls = IdleCalls
  /\ client = [ClientIdle EXCEPT !.status = "queued", !.reading = TRUE]
  /\ gate = GateIdle
  /\ reqs = IdleReqs
  /\ AuxIdle

NextClient ==
  \/ ProviderRun
  \/ ProviderComplete
  \/ ProviderFail
  \/ StreamPoll
  \/ StreamHandle
  \/ StreamExit
  \/ ClientConsume
  \/ ClientStreamEnd
  \/ \E c \in Calls : ClientStartPolling(c)
  \/ \E c \in Calls : ClientTick(c)
  \/ \E c \in Calls : EndpointFetch(c)
  \/ \E c \in Calls : EndpointRespond(c)
  \/ \E c \in Calls : ClientReceive(c)

SpecClient == InitClient /\ [][NextClient]_vars

(***************************************************************************)
(* SpecHost: a stream on the platform or on a server without a limit       *)
(***************************************************************************)
\* the streams explored: fresh ones, ones that have polled until shortly
\* before the host's limit and, where no limit ended them, ones that have
\* polled until shortly before the budget
InitHost ==
  /\ mode \in {"production", "development"}
  /\ hasSession = FALSE
  /\ hosted \in BOOLEAN
  /\ \E polls \in {0, (maxDuration \div pollIntervalSec) - NearBudget, maxPolls - NearBudget} :
       /\ hosted => polls * pollIntervalSec <= maxDuration
       /\ StreamInit(polls)
  /\ calls = IdleCalls
  /\ client = ClientIdle
  /\ gate = GateIdle
  /\ reqs = IdleReqs
  /\ AuxIdle

NextHost ==
  \/ ProviderRun
  \/ ProviderComplete
  \/ HostPoll
  \/ StreamHandle
  \/ StreamExit
  \/ HostTimeout

SpecHost == InitHost /\ [][NextHost]_vars

(***************************************************************************)
(* SpecDisconnect: a stream whose caller may go away                       *)
(***************************************************************************)
InitDisconnect ==
  /\ mode \in {"production", "development"}
  /\ hasSession = FALSE
  /\ hosted = FALSE
  /\ \E polls \in {0, maxPolls - NearBudget} : StreamInit(polls)
  /\ calls = IdleCalls
  /\ client = ClientIdle
  /\ gate = GateIdle
  /\ reqs = IdleReqs
  /\ conn = "connected"
  /\ anon = AnonIdle
  /\ probe = NoProbe
  /\ chat = NoChat
  /\ tok = NoTokenRequest
  /\ bridge = NoBridge
  /\ LibIdle

NextDisconnect ==
  \/ ProviderRun
  \/ ProviderComplete
  \/ ProviderFail
  \/ StreamPoll
  \/ StreamHandle
  \/ StreamExit
  \/ CallerDisconnect

SpecDisconnect == InitDisconnect /\ [][NextDisconnect]_vars

(***************************************************************************)
(* SpecCheck: check and increment on every stored counter state            *)
(***************************************************************************)
\* user_rate_limits rows: none, or counters below, at and above the limits of
\* the tiers, counted in the current period or in an earlier one
CounterRecords ==
  { NoRecord } \cup
  { [exists |-> TRUE, usage_count |-> u, reset_date |-> day,
     monthly_usage_count |-> m, monthly_reset_date |-> month] :
      u \in {0, FREE_LIMIT - 1, FREE_LIMIT, FREE_LIMIT + 1, UNLIMITED_LIMIT},
      m \in {0, SUBSCRIPTION_MONTHLY_LIMIT - 1, SUBSCRIPTION_MONTHLY_LIMIT},
      day \in {Today - 1, Today}, month \in {CurrentMonth - 1, CurrentMonth} }

\* the module runs on the server (no window) or in a browser, whose cookie
\* holds no count or one written by earlier increments
InitCheck ==
  /\ mode \in {"production", "development"}
  /\ hasSession = FALSE
  /\ hosted = FALSE
  /\ StreamInit(0)
  /\ calls = IdleCalls
  /\ client = ClientIdle
  /\ \E account \in Accounts \cup UnknownTierAccounts, rec \in CounterRecords :
       gate = [account |-> account, rec |-> rec, rec0 |-> rec,
               today |-> Today, currentMonth |-> CurrentMonth]
  /\ reqs = IdleReqs
  /\ conn = "connected"
  /\ \E window \in BOOLEAN, count \in 0..(ANONYMOUS_LIMIT + 1) :
       LET cookie == IF window /\ count > 0 THEN EncodeCookieData(count) ELSE NoCookie
       IN anon = [window |-> window, cookie |-> cookie, cookie0 |-> cookie, increments |-> 0]
  /\ probe = NoProbe
  /\ chat = NoChat
  /\ tok = NoTokenRequest
  /\ bridge = NoBridge
  /\ LibIdle

NextCheck ==
  \/ ProbeCheckUser
  \/ ProbeCheckAnonymous
  \/ ProbeIncrementUser
  \/ ProbeIncrementAnonymous

SpecCheck == InitCheck /\ [][NextCheck]_vars

(***************************************************************************)
(* SpecChat: one request to the chat route                                 *)
(***************************************************************************)
InitChat ==
  /\ mode \in {"production", "development"}
  /\ hosted = FALSE
  /\ provider = ProviderInit
  /\ ledger = NoRow
  /\ stream = Unopened
  /\ ref = Unopened
  /\ elapsed = 0
  /\ events = << >>
  /\ refEvents = << >>
  /\ calls = IdleCalls
  /\ client = ClientIdle
  /\ gate = GateIdle
  /\ reqs = IdleReqs
  /\ conn = "connected"
  /\ anon = AnonIdle
  /\ probe = NoProbe
  /\ tok = NoTokenRequest
  /\ bridge = NoBridge
  /\ LibIdle
  /\ \E token \in BOOLEAN, user \in BOOLEAN, sessionId \in BOOLEAN,
        messages \in MessageLists :
       /\ chat = [NoChat EXCEPT !.pc = "received", !.token = token, !.user = user,
                                !.sessionId = sessionId, !.messages = messages]
       /\ hasSession = (user /\ sessionId)

NextChat ==
  \/ ChatAuthorize
  \/ ChatSaveUserMessage
  \/ ChatCreateTask

SpecChat == InitChat /\ [][NextChat]_vars

(***************************************************************************)
(* SpecToken: one request to the token endpoint                            *)
(***************************************************************************)
InitToken ==
  /\ mode \in {"production", "development"}
  /\ hasSession = FALSE
  /\ hosted = FALSE
  /\ StreamInit(0)
  /\ calls = IdleCalls
  /\ client = ClientIdle
  /\ gate = GateIdle
  /\ reqs = IdleReqs
  /\ conn = "connected"
  /\ anon = AnonIdle
  /\ probe = NoProbe
  /\ chat = NoChat
  /\ bridge = NoBridge
  /\ LibIdle
  /\ \E bodyOk \in BOOLEAN, configured \in BOOLEAN, redirect_uri \in RedirectUris,
        grant_type \in {"", "authorization_code", "refresh_token"},
        refresh_token \in BOOLEAN, code \in BOOLEAN, code_verifier \in BOOLEAN :
       tok = [NoTokenRequest EXCEPT !.pc = "received", !.bodyOk = bodyOk,
                !.configured = configured, !.redirect_uri = redirect_uri,
                !.grant_type = grant_type, !.refresh_token = refresh_token,
                !.code = code, !.code_verifier = code_verifier]

NextToken ==
  \/ TokenValidate
  \/ TokenExchange

SpecToken == InitToken /\ [][NextToken]_vars

(***************************************************************************)
(* SpecBridge: session-bridge calls with one federated email               *)
(***************************************************************************)
InitBridge ==
  /\ mode \in {"production", "development"}
  /\ hasSession = FALSE
  /\ hosted = FALSE
  /\ StreamInit(0)
  /\ calls = IdleCalls
  /\ client = ClientIdle
  /\ gate = GateIdle
  /\ reqs = IdleReqs
  /\ conn = "connected"
  /\ anon = AnonIdle
  /\ probe = NoProbe
  /\ chat = NoChat
  /\ tok = NoTokenRequest
  /\ LibIdle
  /\ \E others \in {0, perPage * pageLimit - 1, perPage * pageLimit} :
       \/ bridge = [NoBridge EXCEPT !.users.size = others]
       \/ \E p \in InsertPositions(others) :
            bridge = [NoBridge EXCEPT !.users = CreateUser([NoUsers EXCEPT !.size = others], p).users]

NextBridge ==
  \/ \E i \in Logins : BridgeCreateUser(i)
  \/ \E i \in Logins : BridgeListUsers(i)
  \/ OtherSignup

SpecBridge == InitBridge /\ [][NextBridge]_vars

(***************************************************************************)
(* SpecQuery: the research query of one request, in either chat route      *)
(***************************************************************************)
\* everything but the library variables at rest
BaseIdle ==
  /\ mode \in {"production", "development"}
  /\ hasSession = FALSE
  /\ hosted = FALSE
  /\ StreamInit(0)
  /\ calls = IdleCalls
  /\ client = ClientIdle
  /\ gate = GateIdle
  /\ reqs = IdleReqs
  /\ conn = "connected"
  /\ anon = AnonIdle
  /\ probe = NoProbe
  /\ chat = NoChat
  /\ tok = NoTokenRequest
  /\ bridge = NoBridge

LocationNames == {"Rome", "Tristan da Cunha"}

LongInstructions ==
  "Describe the maritime trade of this place between 1500 and 1800, the families that ran it and the goods they shipped."

\* the texts a caller sends about a location
Instructions(name) ==
  { "", name, "Research the history of " \o name, "research the history of " \o name,
    name \o " ", "Focus on the Viking era", "Only the 20th century in " \o name,
    LongInstructions }

InitQuery ==
  /\ BaseIdle
  /\ poller = NoPoller
  /\ clock = NoClock
  /\ signin = NoSignin
  /\ auth = NoAuth
  /\ \E route \in {"chat", "gated"}, name \in LocationNames, about \in LocationNames,
        present \in BOOLEAN, type \in {"string", "parts"} :
       \E text \in Instructions(about) :
         query = [NoQuery EXCEPT !.pc = "received", !.route = route,
                    !.content = [type |-> type, text |-> text],
                    !.location = IF present THEN [present |-> TRUE, name |-> name]
                                 ELSE NoLocation]

NextQuery ==
  \/ ChatResearchQuery
  \/ GatedResearchQuery

SpecQuery == InitQuery /\ [][NextQuery]_vars

(***************************************************************************)
(* SpecPolling: the polling effect after a stream handed the task over     *)
(***************************************************************************)
InitPolling ==
  /\ BaseIdle
  /\ query = NoQuery
  /\ clock = NoClock
  /\ signin = NoSignin
  /\ auth = NoAuth
  /\ poller = [NoPoller EXCEPT !.shouldContinuePolling = TRUE]

NextPolling ==
  \/ \E g \in Effects : PollingEffectRun(g)
  \/ \E g \in Effects : FirstPollReturns(g)
  \/ \E g \in Effects : IntervalTick(g)
  \/ \E g \in Effects : IntervalPollReturns(g)
  \/ \E g \in Effects : PollingEffectCleanup(g)
  \/ Unmount

SpecPolling == InitPolling /\ [][NextPolling]_vars

(***************************************************************************)
(* SpecClock: a free account at its daily limit, checked hour after hour   *)
(***************************************************************************)
InitClock ==
  /\ BaseIdle
  /\ query = NoQuery
  /\ poller = NoPoller
  /\ signin = NoSignin
  /\ auth = NoAuth
  /\ \E offset \in Offsets, now \in HoursPerDay..(2 * HoursPerDay - 1) :
       clock = [NoClock EXCEPT !.pc = "start", !.now = now, !.offset = offset,
                  !.rec = [NoRecord EXCEPT !.exists = TRUE, !.usage_count = FREE_LIMIT,
                                           !.reset_date = IsoDate(now)]]

NextClock ==
  \/ ClockCheckAtLimit
  \/ ClockTick
  \/ ClockCheck

SpecClock == InitClock /\ [][NextClock]_vars

(***************************************************************************)
(* SpecSignin: one callback of the sign-in flow                            *)
(***************************************************************************)
InitSignin ==
  /\ BaseIdle
  /\ query = NoQuery
  /\ poller = NoPoller
  /\ clock = NoClock
  /\ auth = NoAuth
  /\ \E via \in {"page", "library"}, code \in BOOLEAN, state \in CallbackStates,
        error \in BOOLEAN, began \in BOOLEAN :
       signin = [NoSignin EXCEPT !.pc = "callback", !.via = via, !.code = code,
                   !.state = state, !.error = error,
                   !.stored = IF began THEN [state |-> "s1", verifier |-> TRUE] ELSE NoPKCE,
                   !.began = IF began THEN "s1" ELSE ""]

NextSignin ==
  \/ HandleCallback
  \/ TokenValidate
  \/ TokenExchange
  \/ CallbackTokenResponse
  \/ LibValidateCallback

SpecSignin == InitSignin /\ [][NextSignin]_vars

(***************************************************************************)
(* SpecAuth: one call of getValidAccessToken                               *)
(***************************************************************************)
StoredTokens ==
  { NoTokens } \cup
  { [present |-> TRUE, accessToken |-> "old", refreshToken |-> r, expiresAt |-> e] :
      r \in BOOLEAN, e \in {0, TokenExpiresAt} }

InitAuth ==
  /\ BaseIdle
  /\ query = NoQuery
  /\ poller = NoPoller
  /\ clock = NoClock
  /\ signin = NoSignin
  /\ \E stored \in StoredTokens, now \in 0..MaxMinutes :
       auth = [NoAuth EXCEPT !.pc = "call", !.now = now, !.tokens = stored, !.had = stored]

NextAuth ==
  \/ GetValidAccessToken
  \/ RefreshReturns

SpecAuth == InitAuth /\ [][NextAuth]_vars

(***************************************************************************)
(* SpecGate: chat requests of one signed-in account                        *)
(***************************************************************************)
\* the user_rate_limits rows the requests start from: none yet, or one at or
\* one short of a limit, counted today / this month or earlier
Records ==
  { NoRecord } \cup
  { [exists |-> TRUE, usage_count |-> FREE_LIMIT - d, reset_date |-> day,
     monthly_usage_count |-> SUBSCRIPTION_MONTHLY_LIMIT - d, monthly_reset_date |-> month] :
      d \in {0, 1}, day \in {Today - 1, Today}, month \in {CurrentMonth - 1, CurrentMonth} }

InitGate ==
  /\ mode \in {"production", "development"}
  /\ hasSession = FALSE
  /\ hosted = FALSE
  /\ StreamInit(0)
  /\ calls = IdleCalls
  /\ client = ClientIdle
  /\ \E account \in Accounts, rec \in Records :
       gate = [account |-> account, rec |-> rec, rec0 |-> rec,
               today |-> Today, currentMonth |-> CurrentMonth]
  /\ reqs = IdleReqs
  /\ AuxIdle

NextGate ==
  \/ \E r \in Reqs : ReqGate(r)
  \/ \E r \in Reqs : ReqCreateTask(r)
  \/ \E r \in Reqs : ReqIncrementRead(r)
  \/ \E r \in Reqs : ReqIncrementWrite(r)

SpecGate == InitGate /\ [][NextGate]_vars


(***************************************************************************)
(* Properties of the stream                                                *)
(***************************************************************************)
IsMessageUpdate(e) == e.type = "message_update"

RelayedFrames == SelectSeq(events, IsMessageUpdate)

Occurrences(e) == Cardinality({k \in 1..Len(events) : events[k] = e})

Positions(t) == {k \in 1..Len(events) : events[k].type = t}

NoErrorFrame == Positions("error") = {}

\* C3 as stated: every transcript message the polls returned is relayed to the
\* caller exactly once, as one message_update per content item, by the time
\* the stream has closed.
C3_EveryMessageRelayedOnce ==
  stream.pc = "closed" =>
    \A i \in 1..Len(stream.statusData.messages) :
      \A j \in 1..stream.statusData.messages[i].items :
        Occurrences(MessageUpdate(i, j, stream.statusData.messages[i].role)) = 1

\* C3 amended: the message_update frames sent so far are, in provider order
\* and each exactly once, the content items of the assistant and tool
\* messages among the first lastMessagesLength transcript messages (other
\* roles and empty contents are skipped), and after every poll handled as
\* running or completed lastMessagesLength is the length of the transcript
\* that poll returned.
C3_DeltaRelay ==
  /\ stream.lastMessagesLength <= Len(provider.messages)
  /\ RelayedFrames
       = FramesFrom(SubSeq(provider.messages, 1, stream.lastMessagesLength), 1)
  /\ (stream.pc \in {"loop", "closed"} /\ stream.responseOk
        /\ stream.statusData.status \in {"running", "completed"})
       => stream.lastMessagesLength = Len(stream.statusData.messages)

\* two messages arrived between the first and the second poll and both were relayed
C3_Witness ==
  /\ stream.pollCount = 2
  /\ stream.lastMessagesLength = 2
  /\ Len(events) >= 6
  /\ events[3].type = "progress"
  /\ events[4].type = "progress"
  /\ events[5] = MessageUpdate(1, 1, "assistant")
  /\ events[Len(events)].msg = 2

\* C4: done is never followed by another frame, and a stream that handled
\* completed and sent no error ends with exactly one done, sent after every
\* message_update, the content, the sources and the images, in that order.
C4_DoneLast ==
  /\ \A k \in Positions("done") : k = Len(events) /\ stream.pc = "closed"
  /\ (stream.pc = "closed" /\ stream.completed /\ NoErrorFrame) =>
       /\ Cardinality(Positions("done")) = 1
       /\ Cardinality(Positions("content")) = 1
       /\ \A c \in Positions("content") :
            /\ \A k \in Positions("message_update") : k < c
            /\ \A k \in Positions("sources") \cup Positions("images") : c < k
       /\ \A a \in Positions("sources") : \A b \in Positions("images") : a < b
       /\ stream.statusData.sources <=> Positions("sources") # {}
       /\ stream.statusData.images <=> Positions("images") # {}

C4_Witness ==
  /\ stream.pc = "closed"
  /\ stream.completed
  /\ events[Len(events)].type = "done"
  /\ Positions("sources") # {}
  /\ Positions("images") # {}
  /\ Positions("message_update") # {}

\* the loop used its whole budget and every poll was answered queued or running
BudgetUsedUp ==
  /\ stream.pc = "closed"
  /\ stream.pollCount = maxPolls
  /\ stream.responseOk
  /\ stream.statusData.status \in {"queued", "running"}

\* C5: when the budget of maxPolls polls is used up and the provider reported
\* neither completed nor failed, the last frame is continue_polling with the
\* task id, no error frame was sent and the ledger holds neither failed nor
\* completed.
C5_HandOff ==
  BudgetUsedUp =>
    /\ events[Len(events)] = ContinuePolling(TaskId)
    /\ Cardinality(Positions("continue_polling")) = 1
    /\ NoErrorFrame
    /\ ledger.status \notin {"failed", "completed"}

C5_Witness ==
  /\ BudgetUsedUp
  /\ stream.statusData.status = "running"
  /\ ledger.status = "running"
  /\ events[Len(events)] = ContinuePolling(TaskId)

\* C9: whatever ledger writes failed, the stream has sent exactly the frames
\* of the loop whose writes all succeed, and no error frame names the write.
C9_WriteFailureInvisible ==
  /\ events = refEvents
  /\ stream.pc = ref.pc
  /\ \A k \in Positions("error") : events[k].info # "ledger write failed"

C9_Witness ==
  /\ ledger.lost
  /\ ledger.status = "queued"
  /\ stream.pc = "closed"
  /\ events[Len(events)].type = "done"

\* the frames that end a stream
FinalFrames == Positions("done") \cup Positions("error") \cup Positions("continue_polling")

\* C22: on every path of the loop (completion, provider-reported failure,
\* failed status request, used-up poll budget, exception) a closed stream
\* holds exactly one of done, error, continue_polling, and that frame is its
\* last; no such frame is sent on a stream that is still open.
C22_OneFinalFrame ==
  /\ \A k \in FinalFrames : k = Len(events) /\ stream.pc = "closed"
  /\ stream.pc = "closed" => Cardinality(FinalFrames) = 1

\* a status request failed after a message had been relayed
C22_Witness ==
  /\ stream.pc = "closed"
  /\ ~stream.responseOk
  /\ Positions("message_update") # {}
  /\ events[Len(events)] = ErrorEv("Failed to get task status")

\* C23 as stated: once the provider has reported completed, a failure while
\* saving the assistant message or updating the chat session sends no error
\* frame and does not keep done back: the caller receives the content and
\* then done.
C23_PersistFailureInvisible ==
  (stream.pc = "closed" /\ stream.completed) =>
    /\ NoErrorFrame
    /\ Positions("content") # {}
    /\ events[Len(events)].type = "done"

(***************************************************************************)
(* Properties of the ledger and of the poll endpoint                       *)
(***************************************************************************)
Terminal == {"completed", "failed"}

\* C6 as stated: under any interleaving of the stream loop and calls of the
\* poll endpoint, once the ledger row of a task holds completed or failed no
\* later write-back changes it.
C6_LedgerNeverBackward ==
  [][ledger.status \in Terminal => ledger'.status = ledger.status]_vars

\* the calls answered 200 with a terminal status
TerminalAnswers ==
  {c \in Calls : calls[c].pc = "responded" /\ calls[c].http = 200
                   /\ calls[c].statusData.status \in Terminal}

\* C8 as stated: the calls that polled a terminal task got the same payload,
\* and at most one of them issued a ledger update.
C8_TerminalPollIdempotent ==
  /\ \A c \in TerminalAnswers : \A d \in TerminalAnswers :
       calls[c].statusData = calls[d].statusData
  /\ Cardinality({c \in TerminalAnswers : calls[c].issued # "none"}) <= 1

(***************************************************************************)
(* Properties of the component                                             *)
(***************************************************************************)
\* C7 as stated: the status the caller sees never goes back from completed to
\* queued or running, whether it comes from the stream or from the polls and
\* in whatever order the polls are answered.
C7_VisibleStatusNeverRegresses ==
  [][client.status = "completed" => client'.status \notin {"queued", "running"}]_vars

(***************************************************************************)
(* Properties of the host limit                                            *)
(***************************************************************************)
\* C10 as stated: on the platform the loop's budget of maxPolls waits ends
\* before the host's limit, so that by the time a request has run for
\* maxDuration seconds its stream has closed (with continue_polling if the
\* task was not over) and the host never ends a stream that is still polling.
C10_HandOffBeforeHostLimit ==
  /\ (hosted /\ elapsed >= maxDuration) => stream.pc = "closed"
  /\ stream.pc # "killed"

(***************************************************************************)
(* Properties of the gate                                                  *)
(***************************************************************************)
\* the requests that reached the rate limit check
Checked == {r \in Reqs : reqs[r].pc \notin {"idle", "r402"}
                           /\ IsUserInitiated(reqs[r].messages)}

Admitted == {r \in Checked : reqs[r].pc # "r429"}

\* C1 as stated: when the account started one short of its limit and two of
\* its user-initiated requests went through the check, exactly one was
\* admitted and the other got RATE_LIMIT_EXCEEDED.
C1_ExactlyOneAdmitted ==
  LET start == CheckUserRateLimit(gate.account, gate.rec0, gate.today, gate.currentMonth)
  IN (mode = "production" /\ start.used = start.limit - 1 /\ Cardinality(Checked) = 2)
       => Cardinality(Admitted) = 1

\* C15: in every request, incrementRateLimit is called only after the
\* provider accepted the creation of the request's task.
C15_IncrementAfterCreation ==
  \A r \in Reqs : reqs[r].incremented => reqs[r].task

\* one request failed at the provider and was answered 500 without an
\* increment, the other went through its increment
C15_Witness ==
  \E r \in Reqs : \E q \in Reqs :
    /\ reqs[r].pc = "ok200" /\ reqs[r].incremented /\ reqs[r].task
    /\ reqs[q].pc = "r500" /\ Len(reqs[q].messages) > 0 /\ ~reqs[q].incremented

\* the counter of the account's tier for the current period, as check reads it
Used(rec) == CheckUserRateLimit(gate.account, rec, gate.today, gate.currentMonth).used

\* the requests whose increment has run to its end
Counted == {r \in Reqs : reqs[r].incremented /\ reqs[r].pc = "ok200"}

\* C25 as stated: once the increments of n admitted submissions of one
\* account have all finished, however their steps interleaved, the account's
\* counter for the period is its value at the start plus n.
C25_NoLostIncrement ==
  (mode = "production" /\ \A r \in Reqs : reqs[r].pc # "incrementing") =>
    Used(gate.rec) = Used(gate.rec0) + Cardinality(Counted)

\* C26 as stated: the research model of a request's task and its pay-per-use
\* event follow the tier the gate resolves for the account, so that an account
\* whose subscription is not active gets the free tier's model and no event.
C26_OneTierPerRequest ==
  \A r \in Reqs :
    (mode = "production" /\ reqs[r].task) =>
      /\ reqs[r].model = ResearchModel(Tier(gate.account))
      /\ reqs[r].tracked = (Tier(gate.account) = "pay_per_use")

\* C2 as stated: in metered mode a request for which a research task was
\* submitted is one the rate limit check allowed when the request arrived,
\* whatever its messages.
C2_NoTaskForRejected ==
  mode = "production" => \A r \in Reqs : reqs[r].task => reqs[r].wouldAllow

(***************************************************************************)
(* Properties of a stream whose caller went away                           *)
(***************************************************************************)
\* the loop is in, or about to start, the wait of an iteration
TimerPending == stream.pc = "loop" /\ LoopContinues(stream)

\* C11 as stated: once the caller has disconnected, whatever the provider's
\* status, the loop polls the provider no more and no timer of it is pending.
C11_NoPollAfterDisconnect ==
  [][conn # "connected" => (stream'.pollCount = stream.pollCount /\ ~TimerPending')]_vars

(***************************************************************************)
(* Properties of check and increment                                       *)
(***************************************************************************)
\* the last call was a check of the signed-in account outside development mode
UserChecked == probe.op = "check" /\ probe.who = "user" /\ mode = "production"

\* the identity of the last check has no counter: no row, no readable cookie
NoCounter ==
  IF probe.who = "user" THEN ~probe.before.exists ELSE ~GetCookie(anon).set

\* C12 as stated: for every tier and every stored counter, check answers
\* allowed = false exactly when used >= limit, and used = 0 for an identity
\* without a counter.
C12_AllowedIffBelowLimit ==
  probe.op = "check" =>
    /\ probe.result.allowed <=> probe.result.used < probe.result.limit
    /\ NoCounter => probe.result.used = 0

\* C12 amended: for the anonymous, free and subscription tiers check answers
\* allowed = false exactly when used >= limit; for pay_per_use and in
\* development mode it answers allowed = true whatever the counter; and
\* used = 0 for an identity without a counter.
C12_CheckDecision ==
  probe.op = "check" =>
    /\ probe.result.tier \in {"anonymous", "free", "subscription"}
         => (probe.result.allowed <=> probe.result.used < probe.result.limit)
    /\ probe.result.tier \in {"pay_per_use", "development"} => probe.result.allowed
    /\ NoCounter => probe.result.used = 0

C12_Witness ==
  /\ UserChecked
  /\ probe.result.tier = "free"
  /\ probe.result.used = FREE_LIMIT
  /\ ~probe.result.allowed

\* C13: a free account whose row was counted on another day, and a
\* subscription account whose row was counted in another month, are checked as
\* used = 0 and allowed, whatever the stored counts.
C13_StalePeriodCountsZero ==
  (UserChecked /\ probe.before.exists) =>
    /\ (Tier(gate.account) = "free" /\ probe.before.reset_date # gate.today)
         => (probe.result.used = 0 /\ probe.result.allowed)
    /\ (Tier(gate.account) = "subscription"
          /\ probe.before.monthly_reset_date # gate.currentMonth)
         => (probe.result.used = 0 /\ probe.result.allowed)

C13_Witness ==
  /\ UserChecked
  /\ Tier(gate.account) = "free"
  /\ probe.before.exists
  /\ probe.before.reset_date = gate.today - 1
  /\ probe.before.usage_count = FREE_LIMIT
  /\ probe.result.used = 0
  /\ probe.result.allowed

\* the last call was an increment of the signed-in account's existing row
\* outside development mode
UserIncremented ==
  /\ probe.op = "increment"
  /\ probe.who = "user"
  /\ mode = "production"
  /\ probe.before.exists

\* C14: increment on a row whose marker is not the current period sets the
\* counter of the tier's scope to 1 and the marker to the current period; on a
\* row whose marker matches it adds exactly 1 and leaves the marker.
C14_IncrementResetsOrAdds ==
  UserIncremented =>
    /\ Tier(gate.account) = "free" =>
         IF probe.before.reset_date # gate.today
         THEN gate.rec.usage_count = 1 /\ gate.rec.reset_date = gate.today
         ELSE /\ gate.rec.usage_count = probe.before.usage_count + 1
              /\ gate.rec.reset_date = probe.before.reset_date
    /\ Tier(gate.account) = "subscription" =>
         IF probe.before.monthly_reset_date # gate.currentMonth
         THEN /\ gate.rec.monthly_usage_count = 1
              /\ gate.rec.monthly_reset_date = gate.currentMonth
         ELSE /\ gate.rec.monthly_usage_count = probe.before.monthly_usage_count + 1
              /\ gate.rec.monthly_reset_date = probe.before.monthly_reset_date

C14_Witness ==
  /\ UserIncremented
  /\ Tier(gate.account) = "subscription"
  /\ probe.before.monthly_reset_date = gate.currentMonth - 1
  /\ probe.before.monthly_usage_count = SUBSCRIPTION_MONTHLY_LIMIT
  /\ gate.rec.monthly_usage_count = 1
  /\ gate.rec.monthly_reset_date = gate.currentMonth

\* the counter a free account would have on the row
FreeUsed(rec) == CheckUserRateLimit(FreeAccount, rec, gate.today, gate.currentMonth).used

C16_AnonymousOneQuery ==
  (probe.op = "check" /\ probe.who = "anonymous" /\ mode = "production"
     /\ ~anon.cookie0.set) =>
    IF anon.increments = 0
    THEN /\ probe.result.allowed
         /\ probe.result.remaining = 1
         /\ probe.result.tier = "anonymous"
    ELSE ~probe.result.allowed /\ probe.result.remaining = 0

(***************************************************************************)
(* Properties of the chat route's response                                 *)
(***************************************************************************)
\* C17: when the provider answers the creation of the task with 402, the
\* route answers 402 with INSUFFICIENT_CREDITS, no research_tasks row is
\* created and no stream is constructed.
C17_InsufficientCredits ==
  chat.answer = "402" =>
    /\ chat.pc = "answered"
    /\ chat.http = 402
    /\ chat.error = "INSUFFICIENT_CREDITS"
    /\ ledger = NoRow
    /\ stream.pc = "unopened"
    /\ events = << >>

C17_Witness ==
  /\ chat.answer = "402"
  /\ chat.http = 402
  /\ chat.user
  /\ mode = "production"
  /\ stream.pc = "unopened"

(***************************************************************************)
(* Properties of the token endpoint                                        *)
(***************************************************************************)
\* C18 as stated: an authorization-code exchange is forwarded to the identity
\* provider only for a request whose redirect_uri is in the allow-list; with
\* any other redirect_uri, or none, nothing is forwarded.
C18_ForwardOnlyAllowedRedirect ==
  tok.forwarded = "authorization_code" => tok.redirect_uri \in AllowedRedirectUris

\* C19 as stated: every error response of the token endpoint carries one of
\* the error codes invalid_request, invalid_grant, server_error.
C19_StandardErrorCodes ==
  (tok.pc = "answered" /\ tok.http # 200) =>
    tok.error \in {"invalid_request", "invalid_grant", "server_error"}

(***************************************************************************)
(* Properties of the session bridge                                        *)
(***************************************************************************)
\* C20 as stated: however the session-bridge calls with the same federated
\* email interleave, at most one local account with that email exists, and
\* every call the store answered resolves to that account's id, wherever the
\* account is listed among the stored accounts.
C20_OneAccountEveryCallResolves ==
  /\ Cardinality(bridge.users.mine) <= 1
  /\ \A i \in Logins :
       LET l == bridge.logins[i]
       IN (l.pc \in {"resolved", "failed"} /\ ~l.storeError) =>
            /\ l.pc = "resolved"
            /\ l.userId \in { a.id : a \in bridge.users.mine }

(***************************************************************************)
(* Properties of the research query                                        *)
(***************************************************************************)
Contains(s, sub) ==
  \E i \in 1..(Len(s) - Len(sub) + 1) : SubSeq(s, i, i + Len(sub) - 1) = sub

\* the text is the location's name or 'Research the history of <name>'
BareMention(q) ==
  /\ q.location.present
  /\ q.content.type = "string"
  /\ q.content.text \in {q.location.name, "Research the history of " \o q.location.name}

\* C21 as stated: the route sends the default prompt only for a bare location
\* mention, the default prompt holds the location's name verbatim, and any
\* other text the caller supplied is sent to the provider unchanged.
C21_DefaultPromptOnlyForBareMention ==
  query.pc = "sent" =>
    IF BareMention(query)
    THEN Contains(query.researchQuery, query.location.name)
    ELSE query.researchQuery = query.content.text

(***************************************************************************)
(* Properties of the polling effect                                        *)
(***************************************************************************)
\* C24 as stated: once a run of the polling effect has been cleaned up
\* (polling ended by a completed poll, by a failed poll, by unmount or by a
\* change of task), no interval of that run is active, also when the end
\* came while the first poll was in flight.
C24_NoIntervalAfterEnd ==
  \A g \in Effects : poller.run[g].cleaned => ~poller.run[g].timer

(***************************************************************************)
(* Properties of the reset time                                            *)
(***************************************************************************)
\* C28 as stated: for a free account at its daily limit, the resetTime that
\* check returns is the instant of the reset: a check before it is refused, a
\* check at or after it counts used = 0, whatever the server's zone.
C28_ResetTimeIsTheReset ==
  clock.pc = "checked" =>
    IF clock.last.at < clock.first.resetTime
    THEN ~clock.last.allowed
    ELSE clock.last.used = 0

(***************************************************************************)
(* Properties of the sign-in client                                        *)
(***************************************************************************)
\* C29 as stated: the completion page sends the authorization code to the
\* token endpoint only when the callback's state equals the state stored when
\* the flow began; a callback without state, or with another state, leads to
\* no token exchange.
C29_ExchangeOnlyForMatchingState ==
  signin.sent => (signin.state # "" /\ signin.state = signin.began)

\* the call found a refresh token and an access token that is expired or
\* within refreshWindowMin of its expiry
RefreshDue ==
  /\ auth.had.present
  /\ auth.had.refreshToken
  /\ auth.had.expiresAt # 0
  /\ auth.now >= auth.had.expiresAt - refreshWindowMin

\* C30 as stated: with a stored refresh token and an access token that is
\* expired or within 5 minutes of expiry, getValidAccessToken sends a refresh
\* and returns the new access token when the refresh succeeds; it returns null
\* only when no tokens were stored.
C30_RefreshWhenDue ==
  auth.pc = "done" =>
    /\ RefreshDue => (auth.attempted /\ (auth.refreshOk => auth.result = "new"))
    /\ auth.result = "null" => ~auth.had.present

====
